---- MODULE Spec2Model ----
(***************************************************************************)
(* A model of the query evaluation engine of obsidian-advanced-native-     *)
(* search (src/src/search.ts): the pattern matcher, the line-AND regex     *)
(* builder, and the search driver runSearch; with the query modal          *)
(* (src/src/ui.ts), the highlight helpers of the results view              *)
(* (src/src/resultsView.ts) and the result leaves of the plugin            *)
(* (src/src/plugin.ts).                                                    *)
(*                                                                         *)
(* A string is a sequence of one-character strings.  "LF" and "CR" stand   *)
(* for the code units \n and \r.  A position is 1-based.                   *)
(***************************************************************************)
EXTENDS Integers, Sequences, FiniteSets, TLC

VARIABLES
  mpValue,    \* matchPattern: the value v
  mpPattern,  \* matchPattern: the pattern pat
  mpCase,     \* matchPattern: caseSensitive
  mpResult,   \* matchPattern: what the call returned ("none" before it)
  mpPc        \* "call" before, "done" after the call

mpVars == <<mpValue, mpPattern, mpCase, mpResult, mpPc>>

VARIABLES
  lrTerms,    \* line filter: the terms given to buildLineRegexLiteral_AND
  lrCase,     \* line filter: caseSensitive
  lrLine,     \* line filter: the line of text tested
  lrLiteral,  \* line filter: the literal built ("none" before)
  lrResult,   \* line filter: whether the line matched ("none" before)
  lrPc        \* "build", "test", "done"

lrVars == <<lrTerms, lrCase, lrLine, lrLiteral, lrResult, lrPc>>

VARIABLES
  files,           \* runSearch: app.vault.getMarkdownFiles(), with each file's cache
  parsedQuery,     \* runSearch: the ParsedQuery
  searchOptions,   \* runSearch: the SearchOptions
  prepared,        \* searchFn, regexForGlobalQuerySearch and exactPhrase
  sortedFiles,     \* the sorted copy the loop runs over
  fileIdx,         \* the loop's position in sortedFiles (1-based)
  bodyText,        \* the body read for the current file ("none" before the read)
  matches,         \* the MatchLog entries pushed
  totalLineHits,
  matchedFiles,
  regexLastIndex,  \* lastIndex of the RegExp of each property filter
  pc,              \* "start", "gate", "read", "eval", "finish", "done", "threw"
  reads,           \* history: the paths cachedRead was called with, in order
  passedGates,     \* history: the paths that passed the five metadata gates
  passedFilters    \* history: the paths that passed every dedicated filter

rsVars == <<files, parsedQuery, searchOptions, prepared, sortedFiles, fileIdx, bodyText,
            matches, totalLineHits, matchedFiles, regexLastIndex, pc, reads, passedGates, passedFilters>>

VARIABLES
  meList,          \* mergeExcerpts: the excerpt list L
  meSelf,          \* mergeExcerpts(L, L), << >> before the call
  meAlone,         \* mergeExcerpts(L, []), << >> before the call
  meDone           \* which of the two calls have returned

meVars == <<meList, meSelf, meAlone, meDone>>

VARIABLES
  uiChips,         \* QueryPromptModal: the chips of each filter list but the line terms
  uiLineTerms,     \* QueryPromptModal: lineTerms
  uiQueryInput,    \* QueryPromptModal: the text in the free-text input
  uiOpen,          \* the modal is open
  uiSubmitted,     \* history: the arguments of each onSubmit call
  uiNotice         \* the last Notice shown ("none" before any)

uiVars == <<uiChips, uiLineTerms, uiQueryInput, uiOpen, uiSubmitted, uiNotice>>

VARIABLES
  pfArgs,          \* matchProperty: [cache, name, value, caseSensitive], value as the form builds it
  pfResult         \* matchProperty: [returned, value], value being what the call returned

pfVars == <<pfArgs, pfResult>>

VARIABLES
  rvArgs,     \* results view: the arguments of the helper called
  rvResult    \* results view: [pc, value], what the helper returned

rvVars == <<rvArgs, rvResult>>

VARIABLES
  plPlugin,   \* plugin: splitLeaf and windowLeaf (0 for null), settings.defaultDisplayMode
  plCalls,    \* plugin: the showResults calls made, each [pc, mode, target, leaf]
  plEnv       \* workspace: popout leaves available, next leaf, the views rendered

plVars == <<plPlugin, plCalls, plEnv>>

vars == <<mpVars, lrVars, rsVars, meVars, uiVars, pfVars, rvVars, plVars>>

\* ------------------------------------------------------------------ bounds

\* Longest value string handed to matchPattern.
MaxValLen == 3
\* Longest pattern string handed to matchPattern.
MaxPatLen == 4
\* Most terms of a line filter, and the longest term and line.
MaxTerms == 2
MaxTermLen == 2
MaxLineLen == 3

\* ----------------------------------------------------------------- strings

SeqsUpTo(S, n) == UNION {[1..k -> S] : k \in 0..n}

\* String.prototype.toLowerCase, on the letters of the model's alphabets.
LowerChar(c) == CASE c = "A" -> "a" [] c = "B" -> "b" [] c = "T" -> "t" [] OTHER -> c

toLowerCase(s) == [k \in 1..Len(s) |-> LowerChar(s[k])]

\* String.prototype.includes.
includes(h, n) == \E k \in 0..(Len(h) - Len(n)) : SubSeq(h, k + 1, k + Len(n)) = n

\* The characters "." does not match (no s flag): the ECMAScript LineTerminator.
IsLineTerminator(c) == c \in {"LF", "CR"}

\* [a-z] under the i flag.
IsAsciiLetter(c) == c \in {"a", "b", "A", "B", "i", "g", "y"}

\* ------------------------------------------------------- regular expressions
(***************************************************************************)
(* The part of the ECMAScript pattern language the engine's patterns use:  *)
(* literal characters, ".", "^", "$", "\" escapes of syntax characters,    *)
(* the quantifiers * ? + (greedy or lazy) on a one-character atom, and the *)
(* lookahead (?=...).  Parsing ends "ok", "error" (the SyntaxError new     *)
(* RegExp throws) or "unsupported" (a construct outside this part, which   *)
(* no input of the model produces).                                        *)
(***************************************************************************)

SyntaxChars == {"^", "$", "\\", ".", "*", "+", "?", "(", ")", "[", "]", "{", "}", "|"}

Item(t, c, q, lazy, sub) == [t |-> t, c |-> c, q |-> q, lazy |-> lazy, sub |-> sub]

ParseResult(st, items, next) == [st |-> st, items |-> items, next |-> next]

RECURSIVE ParseSeq(_, _, _, _)
ParseSeq(src, i, items, inGroup) ==
  IF i > Len(src)
  THEN ParseResult(IF inGroup THEN "error" ELSE "ok", items, i)
  ELSE LET c == src[i] IN
    CASE c = ")" ->
           ParseResult(IF inGroup THEN "ok" ELSE "error", items, i)
      [] c \in {"*", "?", "+"} ->
           IF items = << >> THEN ParseResult("error", items, i)
           ELSE LET last == items[Len(items)] IN
             IF last.t = "look" THEN ParseResult("unsupported", items, i)
             ELSE IF last.t \in {"bol", "eol"} \/ last.q # "one"
             THEN ParseResult("error", items, i)
             ELSE LET lazy == i < Len(src) /\ src[i + 1] = "?"
                      q    == CASE c = "*" -> "star" [] c = "?" -> "opt" [] OTHER -> "plus"
                      it   == Item(last.t, last.c, q, lazy, << >>)
                  IN ParseSeq(src, IF lazy THEN i + 2 ELSE i + 1,
                              [items EXCEPT ![Len(items)] = it], inGroup)
      [] c = "\\" ->
           IF i = Len(src) THEN ParseResult("error", items, i)
           ELSE IF src[i + 1] \in SyntaxChars \cup {"/"}
           THEN ParseSeq(src, i + 2,
                         Append(items, Item("lit", src[i + 1], "one", FALSE, << >>)), inGroup)
           ELSE ParseResult("unsupported", items, i)
      [] c = "." ->
           ParseSeq(src, i + 1, Append(items, Item("any", "", "one", FALSE, << >>)), inGroup)
      [] c = "^" ->
           ParseSeq(src, i + 1, Append(items, Item("bol", "", "one", FALSE, << >>)), inGroup)
      [] c = "$" ->
           ParseSeq(src, i + 1, Append(items, Item("eol", "", "one", FALSE, << >>)), inGroup)
      [] c = "(" ->
           IF i + 2 <= Len(src) /\ src[i + 1] = "?" /\ src[i + 2] = "="
           THEN LET sub == ParseSeq(src, i + 3, << >>, TRUE) IN
                IF sub.st # "ok" THEN ParseResult(sub.st, items, i)
                ELSE ParseSeq(src, sub.next + 1,
                              Append(items, Item("look", "", "one", FALSE, sub.items)), inGroup)
           ELSE ParseResult("unsupported", items, i)
      [] c \in {"[", "]", "{", "}", "|"} -> ParseResult("unsupported", items, i)
      [] OTHER ->
           ParseSeq(src, i + 1, Append(items, Item("lit", c, "one", FALSE, << >>)), inGroup)

\* The flags new RegExp accepts: each of d g i m s u v y at most once.
ValidFlags(flags) ==
  /\ \A k \in 1..Len(flags) : flags[k] \in {"d", "g", "i", "m", "s", "u", "v", "y"}
  /\ \A j, k \in 1..Len(flags) : j # k => flags[j] # flags[k]

HasFlag(flags, f) == \E k \in 1..Len(flags) : flags[k] = f

\* new RegExp(source, flags): a regex object (kind "regex"), or the SyntaxError
\* it throws (kind "SyntaxError").
NewRegExp(source, flags) ==
  LET p == ParseSeq(source, 1, << >>, FALSE) IN
  IF p.st = "ok" /\ ValidFlags(flags)
  THEN [kind |-> "regex", items |-> p.items, ci |-> HasFlag(flags, "i"),
        global |-> HasFlag(flags, "g"), sticky |-> HasFlag(flags, "y")]
  ELSE [kind |-> IF p.st = "unsupported" THEN "unsupported" ELSE "SyntaxError",
        items |-> << >>, ci |-> FALSE, global |-> FALSE, sticky |-> FALSE]

AtomOK(it, s, i, ci) ==
  /\ i <= Len(s)
  /\ IF it.t = "any" THEN ~IsLineTerminator(s[i])
     ELSE IF ci THEN LowerChar(s[i]) = LowerChar(it.c) ELSE s[i] = it.c

\* The backtracking matcher: the position after the match of items[k..] that
\* starts at position i, by the matcher's priority order, or 0 when none.
RECURSIVE MatchEnd(_, _, _, _, _)
MatchEnd(items, k, s, i, ci) ==
  IF k > Len(items) THEN i
  ELSE LET it   == items[k]
           rest == MatchEnd(items, k + 1, s, i, ci)
       IN
    CASE it.t = "bol" -> IF i = 1 THEN rest ELSE 0
      [] it.t = "eol" -> IF i = Len(s) + 1 THEN rest ELSE 0
      [] it.t = "look" -> IF MatchEnd(it.sub, 1, s, i, ci) # 0 THEN rest ELSE 0
      [] OTHER ->
           LET ok   == AtomOK(it, s, i, ci)
               more == IF ok THEN MatchEnd(items, k, s, i + 1, ci) ELSE 0
               once == IF ok THEN MatchEnd(items, k + 1, s, i + 1, ci) ELSE 0
           IN CASE it.q = "one" -> once
                [] it.q = "star" ->
                     IF it.lazy THEN (IF rest # 0 THEN rest ELSE more)
                     ELSE (IF more # 0 THEN more ELSE rest)
                [] it.q = "opt" ->
                     IF it.lazy THEN (IF rest # 0 THEN rest ELSE once)
                     ELSE (IF once # 0 THEN once ELSE rest)
                [] OTHER ->
                     IF ok
                     THEN MatchEnd([items EXCEPT ![k].q = "star"], k, s, i + 1, ci)
                     ELSE 0

NoMatch == [start |-> 0, end |-> 0]

\* RegExpBuiltinExec from position `from`: the leftmost match (at `from` only
\* when sticky), as [start, end) positions.
RegexExec(rx, s, from) ==
  LET starts == IF rx.sticky THEN {from} \cap (1..(Len(s) + 1)) ELSE from..(Len(s) + 1)
      hits   == {i \in starts : MatchEnd(rx.items, 1, s, i, rx.ci) # 0}
  IN IF hits = {} THEN NoMatch
     ELSE LET i == CHOOSE x \in hits : \A y \in hits : x <= y
          IN [start |-> i, end |-> MatchEnd(rx.items, 1, s, i, rx.ci)]

\* rx.test(s) on a regex object just created (lastIndex = 0).
RegexTest(rx, s) == RegexExec(rx, s, 1) # NoMatch

\* ----------------------------------------------------------- pattern matcher

Null == [kind |-> "null", items |-> << >>, ci |-> FALSE, global |-> FALSE, sticky |-> FALSE]

\* pattern.match(/^\/(.+)\/([a-z]*)$/i): the greedy (.+) ends at the last "/"
\* that leaves only letters behind it; "." matches no line terminator.
ExplicitSplit(pattern) ==
  LET cands == {j \in 3..Len(pattern) :
                  /\ pattern[j] = "/"
                  /\ \A k \in 2..(j - 1) : ~IsLineTerminator(pattern[k])
                  /\ \A k \in (j + 1)..Len(pattern) : IsAsciiLetter(pattern[k])}
  IN IF Len(pattern) >= 3 /\ pattern[1] = "/" /\ cands # {}
     THEN LET j == CHOOSE x \in cands : \A y \in cands : y <= x
          IN [m |-> TRUE, body |-> SubSeq(pattern, 2, j - 1),
              flags |-> SubSeq(pattern, j + 1, Len(pattern))]
     ELSE [m |-> FALSE, body |-> << >>, flags |-> << >>]

\* The same parse without the try/catch: the SyntaxError escapes.
tryParseExplicitRegex_NoCatch(pattern) ==
  LET sp == ExplicitSplit(pattern) IN
  IF ~sp.m THEN Null ELSE NewRegExp(sp.body, sp.flags)

\* A regex object, or Null: the catch turns the constructor's error into Null.
tryParseExplicitRegex(pattern) ==
  LET sp == ExplicitSplit(pattern) IN
  IF ~sp.m THEN Null
  ELSE LET rx == NewRegExp(sp.body, sp.flags) IN
       IF rx.kind = "regex" THEN rx ELSE Null

\* esc of globToRegExp: s.replace(/[.+^${}()|[\]\\]/g, "\\$&") on one character.
GlobEsc(ch) ==
  IF ch \in {".", "+", "^", "$", "{", "}", "(", ")", "|", "[", "]", "\\"}
  THEN <<"\\", ch>> ELSE <<ch>>

RECURSIVE GlobSource(_)
GlobSource(glob) ==
  IF glob = << >> THEN << >>
  ELSE (CASE Head(glob) = "*" -> <<".", "*">>
          [] Head(glob) = "?" -> <<".">>
          [] OTHER -> GlobEsc(Head(glob))) \o GlobSource(Tail(glob))

globToRegExp(glob, caseSensitive) ==
  NewRegExp(GlobSource(glob), IF caseSensitive THEN << >> ELSE <<"i">>)

includesWithCase(haystack, needle, caseSensitive) ==
  IF ~caseSensitive
  THEN includes(toLowerCase(haystack), toLowerCase(needle))
  ELSE includes(haystack, needle)

HasGlobChar(pat) == \E k \in 1..Len(pat) : pat[k] \in {"*", "?"}

\* The glob test is tried before the explicit regex.
matchPattern_GlobFirst(v, pat, caseSensitive) ==
  IF HasGlobChar(pat)
  THEN LET grx == globToRegExp(pat, caseSensitive) IN
       IF grx.kind = "regex" THEN RegexTest(grx, v) ELSE "SyntaxError"
  ELSE LET rx == tryParseExplicitRegex(pat) IN
       IF rx # Null THEN RegexTest(rx, v)
       ELSE includesWithCase(v, pat, caseSensitive)

\* A boolean, or "SyntaxError" when a regex constructor's error escapes.
matchPattern(v, pat, caseSensitive) ==
  LET rx == tryParseExplicitRegex(pat) IN
  IF rx # Null
  THEN (IF rx.kind = "regex" THEN RegexTest(rx, v) ELSE "SyntaxError")
  ELSE IF HasGlobChar(pat)
  THEN LET grx == globToRegExp(pat, caseSensitive) IN
       IF grx.kind = "regex" THEN RegexTest(grx, v) ELSE "SyntaxError"
  ELSE includesWithCase(v, pat, caseSensitive)

\* The alphabets of the values and patterns handed to matchPattern.
ValueChars == {"a", "A", "/"}
PatternChars == {"a", "A", "*", "?", "/", "i"}

IdlePattern ==
  /\ mpValue = << >> /\ mpPattern = << >> /\ mpCase = FALSE
  /\ mpResult = "none" /\ mpPc = "idle"

IdleLine ==
  /\ lrTerms = << >> /\ lrCase = FALSE /\ lrLine = << >>
  /\ lrLiteral = "none" /\ lrResult = "none" /\ lrPc = "idle"

IdleSearch ==
  /\ files = << >> /\ parsedQuery = "none" /\ searchOptions = "none" /\ prepared = "none"
  /\ sortedFiles = << >> /\ fileIdx = 0 /\ bodyText = "none" /\ matches = << >>
  /\ totalLineHits = 0 /\ matchedFiles = 0 /\ regexLastIndex = << >> /\ pc = "idle"
  /\ reads = << >> /\ passedGates = {} /\ passedFilters = {}

\* The chip lists of the modal that hold strings, and the one of properties.
ChipKinds == {"file", "path", "tag", "content", "heading", "property"}

\* No modal is open.
IdleModal ==
  /\ uiChips = [kind \in ChipKinds |-> << >>] /\ uiLineTerms = << >> /\ uiQueryInput = << >>
  /\ uiOpen = FALSE /\ uiSubmitted = << >> /\ uiNotice = "none"

\* matchProperty is not called.
IdleProperty == pfArgs = "none" /\ pfResult = [pc |-> "idle", value |-> FALSE]

IdleView == rvArgs = "none" /\ rvResult = [pc |-> "idle", value |-> << >>]

IdlePlugin ==
  /\ plPlugin = [splitLeaf |-> 0, windowLeaf |-> 0, defaultDisplayMode |-> "split"]
  /\ plCalls = << >>
  /\ plEnv = [popout |-> TRUE, next |-> 1, views |-> {}]

\* mergeExcerpts is not called.
IdleMerge == meList = << >> /\ meSelf = << >> /\ meAlone = << >> /\ meDone = {}

InitPattern ==
  /\ IdleLine
  /\ IdleSearch
  /\ IdleMerge
  /\ IdleModal
  /\ IdleProperty /\ IdleView /\ IdlePlugin
  /\ mpValue \in SeqsUpTo(ValueChars, MaxValLen)
  /\ mpPattern \in SeqsUpTo(PatternChars, MaxPatLen)
  /\ mpCase \in BOOLEAN
  /\ mpResult = "none"
  /\ mpPc = "call"

CallMatchPattern ==
  /\ mpPc = "call"
  /\ mpResult' = matchPattern(mpValue, mpPattern, mpCase)
  /\ mpPc' = "done"
  /\ UNCHANGED <<mpValue, mpPattern, mpCase, lrVars, rsVars, meVars, uiVars, pfVars, rvVars, plVars>>

NextPattern == CallMatchPattern

SpecPattern == InitPattern /\ [][NextPattern]_vars

\* Character equality under the case rule.
CharEq(x, y, caseSensitive) == IF caseSensitive THEN x = y ELSE LowerChar(x) = LowerChar(y)

\* needle occurs in haystack, compared character by character.
Contains(haystack, needle, caseSensitive) ==
  \E k \in 0..(Len(haystack) - Len(needle)) :
    \A j \in 1..Len(needle) : CharEq(haystack[k + j], needle[j], caseSensitive)

\* The unanchored glob: g[k..] matches some text starting at position i of v,
\* "*" standing for any run and "?" for any one character of a line.
RECURSIVE GlobAt(_, _, _, _, _)
GlobAt(g, k, v, i, caseSensitive) ==
  IF k > Len(g) THEN TRUE
  ELSE CASE g[k] = "*" ->
              \/ GlobAt(g, k + 1, v, i, caseSensitive)
              \/ (i <= Len(v) /\ ~IsLineTerminator(v[i]) /\ GlobAt(g, k, v, i + 1, caseSensitive))
         [] g[k] = "?" ->
              i <= Len(v) /\ ~IsLineTerminator(v[i]) /\ GlobAt(g, k + 1, v, i + 1, caseSensitive)
         [] OTHER ->
              i <= Len(v) /\ CharEq(v[i], g[k], caseSensitive)
                /\ GlobAt(g, k + 1, v, i + 1, caseSensitive)

GlobContains(v, g, caseSensitive) == \E i \in 1..(Len(v) + 1) : GlobAt(g, 1, v, i, caseSensitive)

\* C3: matchPattern interprets the pattern in strict priority order.  A pattern
\* that parses as an explicit /body/flags regex is tested as that regex (also when
\* its body holds * or ?), and then caseSensitive has no effect; otherwise a
\* pattern holding * or ? is an unanchored glob; otherwise a substring test.
C3_PatternPriority ==
  mpPc = "done" =>
    LET sp == ExplicitSplit(mpPattern)
        rx == NewRegExp(sp.body, sp.flags)
    IN IF sp.m /\ rx.kind = "regex"
       THEN /\ mpResult = RegexTest(rx, mpValue)
            /\ matchPattern(mpValue, mpPattern, ~mpCase) = mpResult
       ELSE IF HasGlobChar(mpPattern)
       THEN mpResult = GlobContains(mpValue, mpPattern, mpCase)
       ELSE mpResult = Contains(mpValue, mpPattern, mpCase)

\* C3 witness: an explicit regex whose body holds a glob character matched as a
\* regex where the glob reading of the same pattern does not match.
C3_Witness ==
  /\ mpPc = "done"
  /\ tryParseExplicitRegex(mpPattern) # Null
  /\ HasGlobChar(mpPattern)
  /\ mpResult = TRUE
  /\ ~GlobContains(mpValue, mpPattern, mpCase)

\* The result is true or false, not an escaped error.
IsBoolean(r) == ToString(r) \in {"TRUE", "FALSE"}

\* A pattern of the /body/flags shape whose body or flags do not compile.
MalformedLiteral(pat) ==
  LET sp == ExplicitSplit(pat) IN sp.m /\ NewRegExp(sp.body, sp.flags).kind = "SyntaxError"

\* C4: matchPattern returns a boolean for every pattern and never throws; a
\* /body/flags literal that fails to compile is matched as ordinary text, by the
\* glob rule if it holds * or ?, else by the substring rule.
C4_MalformedRegexFallsThrough ==
  mpPc = "done" =>
    /\ IsBoolean(mpResult)
    /\ MalformedLiteral(mpPattern) =>
         mpResult = IF HasGlobChar(mpPattern)
                    THEN GlobContains(mpValue, mpPattern, mpCase)
                    ELSE Contains(mpValue, mpPattern, mpCase)

\* C4 witness: a malformed literal that matched a value as ordinary text.
C4_Witness ==
  /\ mpPc = "done"
  /\ MalformedLiteral(mpPattern)
  /\ mpResult = TRUE

\* ------------------------------------------------------------- line filter

\* escapeRegex of buildLineRegexLiteral_AND on one character.
EscapeRegexChar(ch) ==
  IF ch \in {".", "*", "+", "?", "^", "$", "{", "}", "(", ")", "|", "[", "]", "\\"}
  THEN <<"\\", ch>> ELSE <<ch>>

RECURSIVE escapeRegex(_)
escapeRegex(s) == IF s = << >> THEN << >> ELSE EscapeRegexChar(Head(s)) \o escapeRegex(Tail(s))

\* The terms are inserted unescaped.
escapeRegex_Identity(s) == s

RECURSIVE LookaheadCore(_)
LookaheadCore(terms) ==
  IF terms = << >> THEN << >>
  ELSE <<"(", "?", "=", ".", "*">> \o escapeRegex(Head(terms)) \o <<")">>
         \o LookaheadCore(Tail(terms))

buildLineRegexLiteral_AND(terms, caseSensitive) ==
  <<"/", "^">> \o LookaheadCore(terms) \o <<".", "*">> \o <<"$", "/">>
    \o (IF caseSensitive THEN << >> ELSE <<"i">>)

\* The regex countLineMatches_AND and extractHitLines test each line with:
\* tryParseExplicitRegex(literal) ?? new RegExp(literal, caseSensitive ? "" : "i").
LineRegex(literal, caseSensitive) ==
  LET rx == tryParseExplicitRegex(literal) IN
  IF rx # Null THEN rx
  ELSE NewRegExp(literal, IF caseSensitive THEN << >> ELSE <<"i">>)

\* The alphabets of line-filter terms and of lines.  "CR" is a carriage return
\* inside a line (not followed by a line feed, so the split keeps it).
TermChars == {"a", "A", ".", "*"}
LineChars == {"a", "A", ".", "*", "CR"}

\* A term is a token of the line-terms input: never empty.
Terms == SeqsUpTo(TermChars, MaxTermLen) \ {<< >>}
TermLists == UNION {[1..n -> Terms] : n \in 1..MaxTerms}

InitLine ==
  /\ IdlePattern
  /\ IdleSearch
  /\ IdleMerge
  /\ IdleModal
  /\ IdleProperty /\ IdleView /\ IdlePlugin
  /\ lrTerms \in TermLists
  /\ lrCase \in BOOLEAN
  /\ lrLine \in SeqsUpTo(LineChars, MaxLineLen)
  /\ lrLiteral = "none"
  /\ lrResult = "none"
  /\ lrPc = "build"

BuildLineLiteral ==
  /\ lrPc = "build"
  /\ lrLiteral' = buildLineRegexLiteral_AND(lrTerms, lrCase)
  /\ lrPc' = "test"
  /\ UNCHANGED <<lrTerms, lrCase, lrLine, lrResult, mpVars, rsVars, meVars, uiVars, pfVars, rvVars, plVars>>

TestLine ==
  /\ lrPc = "test"
  /\ LET rx == LineRegex(lrLiteral, lrCase) IN
       lrResult' = IF rx.kind = "regex" THEN RegexTest(rx, lrLine) ELSE rx.kind
  /\ lrPc' = "done"
  /\ UNCHANGED <<lrTerms, lrCase, lrLine, lrLiteral, mpVars, rsVars, meVars, uiVars, pfVars, rvVars, plVars>>

NextLine == BuildLineLiteral \/ TestLine

SpecLine == InitLine /\ [][NextLine]_vars

\* The line holds every term as a substring, under the case rule.
LineHasAllTerms(line, terms, caseSensitive) ==
  \A n \in 1..Len(terms) : Contains(line, terms[n], caseSensitive)

\* C5: the literal built from the terms, evaluated as the line filter, matches a
\* line exactly when the line holds every term as a substring, for every line
\* that holds no CR?LF line break.
C5_LineAndIffAllTerms ==
  lrPc = "done" => lrResult = LineHasAllTerms(lrLine, lrTerms, lrCase)

\* The same statement for the lines that hold no line terminator character.
LineAndIffAllTerms_NoTerminator ==
  (lrPc = "done" /\ \A k \in 1..Len(lrLine) : ~IsLineTerminator(lrLine[k]))
    => lrResult = LineHasAllTerms(lrLine, lrTerms, lrCase)

\* ------------------------------------------------------------ search driver
(***************************************************************************)
(* A document is a record                                                  *)
(*   path, name   strings (file.path, file.name)                           *)
(*   mtime        file.stat.mtime                                          *)
(*   tags         cache.tags: the raw in-body tags, "#" included           *)
(*   hasFm, fm    cache.frontmatter: a sequence of [key, list, items],     *)
(*                items being the elements of a list value or the one      *)
(*                scalar value                                             *)
(*   headings     cache.headings: a sequence of [heading, line]            *)
(*   body         what vault.cachedRead returns                            *)
(* A Set<string> or Map is a sequence without repetition, in insertion     *)
(* order.                                                                  *)
(***************************************************************************)

Range(seq) == {seq[k] : k \in 1..Len(seq)}

AddToSet(set, x) == IF x \in Range(set) THEN set ELSE Append(set, x)

\* raw.startsWith("#") ? raw.slice(1) : raw
StripHash(raw) == IF raw # << >> /\ Head(raw) = "#" THEN Tail(raw) ELSE raw

\* \s, on the white space of the model's alphabets.
IsSpace(c) == c \in {" ", "LF", "CR"}

\* String.prototype.trim
RECURSIVE trim(_)
trim(s) ==
  IF s = << >> THEN s
  ELSE IF IsSpace(Head(s)) THEN trim(Tail(s))
  ELSE IF IsSpace(s[Len(s)]) THEN trim(SubSeq(s, 1, Len(s) - 1))
  ELSE s

\* fmTags.split(/[,\s]+/): the pieces between runs of separators, an empty
\* piece where the string starts or ends with a separator.
RECURSIVE SplitTags(_, _)
SplitTags(s, cur) ==
  IF s = << >> THEN <<cur>>
  ELSE IF Head(s) = "," \/ IsSpace(Head(s))
  THEN (IF Len(s) > 1 /\ (s[2] = "," \/ IsSpace(s[2]))
        THEN SplitTags(Tail(s), cur)
        ELSE <<cur>> \o SplitTags(Tail(s), << >>))
  ELSE SplitTags(Tail(s), Append(cur, Head(s)))

\* fm[name]: the entry of the frontmatter, or the empty sequence (undefined).
FmEntries(doc, name) == SelectSeq(doc.fm, LAMBDA e : e.key = name)

TagsKey == <<"t", "a", "g", "s">>

RECURSIVE AddBodyTags(_, _)
AddBodyTags(set, tags) ==
  IF tags = << >> THEN set
  ELSE LET raw     == Head(tags)
           cleaned == StripHash(raw)
       IN AddBodyTags(IF raw = << >> \/ cleaned = << >> THEN set ELSE AddToSet(set, cleaned),
                      Tail(tags))

\* push of getTagsForFile
PushTag(set, x) ==
  LET t == trim(x) IN
  IF t = << >> THEN set
  ELSE LET cleaned == StripHash(t) IN
       IF cleaned = << >> THEN set ELSE AddToSet(set, cleaned)

RECURSIVE PushTags(_, _)
PushTags(set, xs) == IF xs = << >> THEN set ELSE PushTags(PushTag(set, Head(xs)), Tail(xs))

\* The frontmatter tags added to the in-body ones; fmTags is the entries of the
\* "tags" key.
AddFrontmatterTags(inBody, fmTags) ==
  IF fmTags = << >> THEN inBody
  ELSE IF fmTags[1].list THEN PushTags(inBody, fmTags[1].items)
  ELSE PushTags(inBody, SplitTags(fmTags[1].items[1], << >>))

getTagsForFile(doc) ==
  AddFrontmatterTags(AddBodyTags(<< >>, doc.tags),
                     IF doc.hasFm THEN FmEntries(doc, TagsKey) ELSE << >>)

\* Array.prototype.join(",") of String(v) for a list value
RECURSIVE JoinComma(_)
JoinComma(items) ==
  IF items = << >> THEN << >>
  ELSE IF Len(items) = 1 THEN items[1]
  ELSE items[1] \o <<",">> \o JoinComma(Tail(items))

\* String(v) of a frontmatter value
StringOf(entry) == IF entry.list THEN JoinComma(entry.items) ELSE entry.items[1]

\* value.test(s) on a regex object kept across calls: a g or y regex starts at
\* its lastIndex and leaves the end of the match (or 0) there.  lastIndex is
\* 0-based.
TestOutcome(m) ==
  IF m = NoMatch THEN [hit |-> FALSE, lastIndex |-> 0] ELSE [hit |-> TRUE, lastIndex |-> m.end - 1]

RegexTestAt(rx, s, lastIndex) ==
  IF ~(rx.global \/ rx.sticky) THEN [hit |-> RegexTest(rx, s), lastIndex |-> lastIndex]
  ELSE IF lastIndex > Len(s) THEN [hit |-> FALSE, lastIndex |-> 0]
  ELSE TestOutcome(RegexExec(rx, s, lastIndex + 1))

StrEq(x, y, caseSensitive) == IF caseSensitive THEN x = y ELSE toLowerCase(x) = toLowerCase(y)

\* A property filter is [name, kind, str, rx]: kind "null" (existence), "string"
\* or "regex".  The result is [ok, lastIndex]: the regex's lastIndex afterwards.
TestedProperty(t) == [ok |-> t.hit, lastIndex |-> t.lastIndex]

\* The value v = fm[name] is given as the entries of that key.
MatchValue(v, pf, caseSensitive, lastIndex) ==
  IF v = << >> THEN [ok |-> FALSE, lastIndex |-> lastIndex]
  ELSE IF pf.kind = "null" THEN [ok |-> TRUE, lastIndex |-> lastIndex]
  ELSE IF pf.kind = "regex"
  THEN TestedProperty(RegexTestAt(pf.rx, StringOf(v[1]), lastIndex))
  ELSE [ok |-> \E k \in 1..Len(v[1].items) : StrEq(v[1].items[k], pf.str, caseSensitive),
        lastIndex |-> lastIndex]

\* A string value is compared exactly, whatever caseSensitive says.
matchProperty_ExactCase(doc, pf, caseSensitive, lastIndex) ==
  IF ~doc.hasFm THEN [ok |-> FALSE, lastIndex |-> lastIndex]
  ELSE MatchValue(FmEntries(doc, pf.name), pf, TRUE, lastIndex)

matchProperty(doc, pf, caseSensitive, lastIndex) ==
  IF ~doc.hasFm THEN [ok |-> FALSE, lastIndex |-> lastIndex]
  ELSE MatchValue(FmEntries(doc, pf.name), pf, caseSensitive, lastIndex)

matchHeading(doc, pattern, caseSensitive) ==
  LET rx == tryParseExplicitRegex(pattern) IN
  \E k \in 1..Len(doc.headings) :
    LET text == doc.headings[k].heading IN
    /\ text # << >>
    /\ IF rx # Null THEN RegexTest(rx, text)
       ELSE matchPattern(text, pattern, caseSensitive) = TRUE

contentContains(text, pattern, caseSensitive) ==
  LET rx == tryParseExplicitRegex(pattern) IN
  IF rx # Null THEN RegexTest(rx, text)
  ELSE matchPattern(text, pattern, caseSensitive) = TRUE

\* text.split(/\r?\n/)
RECURSIVE SplitLines(_, _)
SplitLines(text, cur) ==
  IF text = << >> THEN <<cur>>
  ELSE IF Head(text) = "LF" THEN <<cur>> \o SplitLines(Tail(text), << >>)
  ELSE IF Head(text) = "CR" /\ Len(text) > 1 /\ text[2] = "LF"
  THEN <<cur>> \o SplitLines(Tail(Tail(text)), << >>)
  ELSE SplitLines(Tail(text), Append(cur, Head(text)))

\* The 1-based indexes k of the lines the regex matches.
HitLines(lines, rx) == {k \in 1..Len(lines) : RegexTest(rx, lines[k])}

\* A set of numbers as the ascending sequence: sort((a, b) => a - b).
RECURSIVE SortedSeq(_)
SortedSeq(S) ==
  IF S = {} THEN << >>
  ELSE LET m == CHOOSE x \in S : \A y \in S : x <= y IN <<m>> \o SortedSeq(S \ {m})

LineCount(indices) ==
  [hasAnyHit |-> Len(indices) > 0, hitCount |-> Len(indices), hitLineIndices |-> indices]

\* The indexes are reported 1-based.
countLineMatches_AND_OneBased(text, andPatternLiteral, caseSensitive) ==
  LineCount(SortedSeq(HitLines(SplitLines(text, << >>), LineRegex(andPatternLiteral, caseSensitive))))

\* hitLineIndices are 0-based.
countLineMatches_AND(text, andPatternLiteral, caseSensitive) ==
  IF andPatternLiteral = << >>
  THEN [hasAnyHit |-> TRUE, hitCount |-> 0, hitLineIndices |-> << >>]
  ELSE LineCount(SortedSeq({k - 1 : k \in HitLines(SplitLines(text, << >>),
                                                    LineRegex(andPatternLiteral, caseSensitive))}))

\* --------------------------------------------------- the free-text query

\* The words of a query: its pieces between white space.
RECURSIVE Words(_, _)
Words(q, cur) ==
  IF q = << >> THEN (IF cur = << >> THEN << >> ELSE <<cur>>)
  ELSE IF IsSpace(Head(q))
  THEN (IF cur = << >> THEN << >> ELSE <<cur>>) \o Words(Tail(q), << >>)
  ELSE Words(Tail(q), Append(cur, Head(q)))

\* prepareSimpleSearch(query)(text) is truthy: every word of the query occurs
\* in the text, letter case ignored.
SimpleSearchHit(query, text) ==
  \A w \in Range(Words(query, << >>)) : includes(toLowerCase(text), toLowerCase(w))

\* q[k..] is a subsequence of t[i..].
RECURSIVE IsSubsequence(_, _, _, _)
IsSubsequence(q, k, t, i) ==
  IF k > Len(q) THEN TRUE
  ELSE IF i > Len(t) THEN FALSE
  ELSE IF q[k] = t[i] THEN IsSubsequence(q, k + 1, t, i + 1)
  ELSE IsSubsequence(q, k, t, i + 1)

\* prepareFuzzySearch(query)(text) is truthy: the characters of the query, white
\* space dropped, occur in the text in order, letter case ignored.
FuzzySearchHit(query, text) ==
  IsSubsequence(toLowerCase(SelectSeq(query, LAMBDA c : ~IsSpace(c))), 1, toLowerCase(text), 1)

\* searchFn(text), for the modes that have one.
SearchFnHit(mode, query, text) ==
  IF mode = "simple" THEN SimpleSearchHit(query, text) ELSE FuzzySearchHit(query, text)

\* The compare is case-sensitive.
includesCI_CaseSensitive(haystack, needle) ==
  IF needle = << >> THEN FALSE ELSE includes(haystack, needle)

includesCI(haystack, needle) ==
  IF needle = << >> THEN FALSE
  ELSE includes(toLowerCase(haystack), toLowerCase(needle))

\* text.matchAll(grx) counted: each match found from the end of the one before,
\* one position further after an empty match.
RECURSIVE CountFrom(_, _, _, _)
CountFrom(rx, s, from, n) ==
  IF from > Len(s) + 1 THEN n
  ELSE LET m == RegexExec(rx, s, from) IN
       IF m = NoMatch THEN n
       ELSE CountFrom(rx, s, IF m.end = m.start THEN m.end + 1 ELSE m.end, n + 1)

ensureGlobalRegex(rx) == [rx EXCEPT !.global = TRUE]

countRegexMatches(text, rx) == CountFrom(ensureGlobalRegex(rx), text, 1, 0)

\* What runSearch prepares from the query and the mode before its loop:
\*   hasFn   searchFn is not null (simple and fuzzy mode)
\*   regex   regexForGlobalQuerySearch, Null when not in regex mode; its kind is
\*           "SyntaxError" when new RegExp(parsed.globalQuery, "i") throws
\*   exact   exactPhrase, the empty string standing for null too (both falsy)
PrepareQuery(globalQuery, mode) ==
  LET explicit == tryParseExplicitRegex(globalQuery) IN
  [query |-> globalQuery,
   mode  |-> mode,
   hasFn |-> globalQuery # << >> /\ mode \in {"simple", "fuzzy"},
   exact |-> IF mode = "exact" /\ globalQuery # << >> THEN trim(globalQuery) ELSE << >>,
   regex |-> IF mode = "regex" /\ globalQuery # << >>
             THEN (IF explicit # Null THEN [explicit EXCEPT !.global = FALSE]
                   ELSE NewRegExp(globalQuery, <<"i">>))
             ELSE Null]

Miss == [hit |-> FALSE, count |-> 0]

\* { hit: count > 0, count }
Matches(count) == [hit |-> count > 0, count |-> count]

\* { hit: r, count: r ? 1 : 0 }
Once(r) == [hit |-> r, count |-> IF r THEN 1 ELSE 0]

testGlobalString(s, gq) ==
  IF s = << >> THEN Miss
  ELSE IF gq.mode = "regex" /\ gq.regex # Null THEN Matches(countRegexMatches(s, gq.regex))
  ELSE IF gq.mode \in {"simple", "fuzzy"} /\ gq.hasFn THEN Once(SearchFnHit(gq.mode, gq.query, s))
  ELSE IF gq.mode = "exact" /\ gq.exact # << >> THEN Once(includesCI(s, gq.exact))
  ELSE Miss

\* Sum of the counts of the strings that hit.
HitCount(r) == IF r.hit THEN r.count ELSE 0

RECURSIVE CountHits(_, _)
CountHits(strs, gq) ==
  IF strs = << >> THEN 0
  ELSE HitCount(testGlobalString(Head(strs), gq)) + CountHits(Tail(strs), gq)

\* The strings of the frontmatter the query is tested on: each key, then its
\* values.
RECURSIVE FrontmatterStrings(_)
FrontmatterStrings(fm) ==
  IF fm = << >> THEN << >>
  ELSE <<Head(fm).key>> \o Head(fm).items \o FrontmatterStrings(Tail(fm))

HeadingTexts(doc) == [k \in 1..Len(doc.headings) |-> doc.headings[k].heading]

\* The body part of the free-text phase: [hit, count].
\* A facet that takes a hit only when its count is positive.
Counted(n) == IF n > 0 THEN [hit |-> TRUE, count |-> n] ELSE Miss

\* The lines that test true, counted.
CountLines(lines, Test(_)) == Cardinality({k \in 1..Len(lines) : Test(lines[k])})

GlobalBody(text, gq) ==
  IF gq.mode \in {"simple", "fuzzy"} /\ gq.hasFn
  THEN (IF SearchFnHit(gq.mode, gq.query, text)
        THEN [hit |-> TRUE,
              count |-> CountLines(SplitLines(text, << >>),
                                   LAMBDA ln : SearchFnHit(gq.mode, gq.query, ln))]
        ELSE Miss)
  ELSE IF gq.mode = "regex" /\ gq.regex # Null
  THEN Counted(countRegexMatches(text, gq.regex))
  ELSE IF gq.mode = "exact" /\ gq.exact # << >>
  THEN (IF includesCI(text, gq.exact)
        THEN [hit |-> TRUE,
              count |-> CountLines(SplitLines(text, << >>), LAMBDA ln : includesCI(ln, gq.exact))]
        ELSE Miss)
  ELSE Miss

\* The free-text phase of runSearch on one document: per facet [hit, count],
\* a facet that is not evaluated being a miss.
GlobalFacets(doc, text, gq, targets) ==
  LET on(f) == gq.query # << >> /\ targets[f] IN
  [body        |-> IF on("body") THEN GlobalBody(text, gq) ELSE Miss,
   name        |-> IF on("name") THEN testGlobalString(doc.name, gq) ELSE Miss,
   path        |-> IF on("path") THEN testGlobalString(doc.path, gq) ELSE Miss,
   frontmatter |-> IF on("frontmatter") /\ doc.hasFm
                   THEN Counted(CountHits(FrontmatterStrings(doc.fm), gq)) ELSE Miss,
   tags        |-> IF on("tags") THEN Counted(CountHits(getTagsForFile(doc), gq)) ELSE Miss,
   headings    |-> IF on("headings")
                   THEN Counted(CountHits(SelectSeq(HeadingTexts(doc), LAMBDA h : h # << >>), gq))
                   ELSE Miss]

Facets == {"body", "name", "path", "frontmatter", "tags", "headings"}

\* gqHit always starts true.
gqHit_AlwaysPass(query, facets) == TRUE

\* gqHit: true when there is no query, else set by the first facet that hits.
gqHit(query, facets) == query = << >> \/ \E f \in Facets : facets[f].hit

\* ---------------------------------------------------------------- excerpts

\* An excerpt is [line, text, sources]: line is 0-based, -1 for a synthetic
\* excerpt; sources is a Set in insertion order.  A source tag is written as a
\* sequence: `content:${pat}` is <<"content", ":">> \o pat.

\* The cap runSearch hands to extractHitLines and mergeExcerpts.
PerFileLimit == 10

\* maxLen of formatLineForLog.
FormatMaxLen == 240

RECURSIVE CleanLine(_)
CleanLine(s) ==
  IF s = << >> THEN << >>
  ELSE (CASE Head(s) = "TAB" -> <<" ", " ">>
          [] Head(s) \in {"CR", "NUL"} -> << >>
          [] OTHER -> <<Head(s)>>) \o CleanLine(Tail(s))

\* cleaned.length <= maxLen ? cleaned : cleaned.slice(0, maxLen - 1) + "…"
Truncate(cleaned, maxLen) ==
  IF Len(cleaned) <= maxLen THEN cleaned ELSE Append(SubSeq(cleaned, 1, maxLen - 1), "...")

formatLineForLog(s, maxLen) == Truncate(CleanLine(s), maxLen)

RECURSIVE AddAllToSet(_, _)
AddAllToSet(set, xs) == IF xs = << >> THEN set ELSE AddAllToSet(AddToSet(set, Head(xs)), Tail(xs))

\* slice(0, n)
Take(seq, n) == SubSeq(seq, 1, IF Len(seq) < n THEN Len(seq) ELSE n)

\* The body line of an excerpt tests true for the free-text query.
GlobalLineHit(line, gq) ==
  IF gq.mode \in {"simple", "fuzzy"} /\ gq.hasFn THEN SearchFnHit(gq.mode, gq.query, line)
  ELSE IF gq.mode = "regex" /\ gq.regex # Null THEN RegexTest(gq.regex, line)
  ELSE IF gq.mode = "exact" /\ gq.exact # << >> THEN includesCI(line, gq.exact)
  ELSE FALSE

\* reasons.get(idx) after the three passes of extractHitLines: "line" first, the
\* content patterns in their order, the free-text query last.
ContentTags(hitPats) == [k \in 1..Len(hitPats) |-> <<"content", ":">> \o hitPats[k]]

Reasons(line, parsed, options, gq) ==
  AddAllToSet(
    IF parsed.linePatterns # << >>
       /\ RegexTest(LineRegex(parsed.linePatterns[1], options.caseSensitive), line)
    THEN << <<"line">> >> ELSE << >>,
    ContentTags(SelectSeq(parsed.contentPatterns,
                          LAMBDA pat : contentContains(line, pat, options.caseSensitive)))
    \o (IF parsed.globalQuery # << >> /\ options.globalQueryTargets["body"]
           /\ GlobalLineHit(line, gq)
        THEN << <<"globalQuery", ":", options.mode>> >> ELSE << >>))

\* The excerpts of the lines from the k-th on, ascending.
\* The excerpt of the line at 0-based index idx, if it has reasons.
Reasoned(idx, line, r) ==
  IF r = << >> THEN << >>
  ELSE << [line |-> idx, text |-> formatLineForLog(line, FormatMaxLen), sources |-> r] >>

RECURSIVE ReasonedLines(_, _, _, _, _)
ReasonedLines(lines, k, parsed, options, gq) ==
  IF k > Len(lines) THEN << >>
  ELSE Reasoned(k - 1, lines[k], Reasons(lines[k], parsed, options, gq))
         \o ReasonedLines(lines, k + 1, parsed, options, gq)

extractHitLines(text, parsed, options, gq, perFileLimit) ==
  Take(ReasonedLines(SplitLines(text, << >>), 1, parsed, options, gq), perFileLimit)

\* The entry cur of the line, after ex joined it.
Joined(cur, ex) ==
  [line    |-> cur.line,
   text    |-> IF cur.text = << >> /\ ex.text # << >> THEN ex.text ELSE cur.text,
   sources |-> AddAllToSet(cur.sources, ex.sources)]

\* The map with its k-th entry replaced.
ReplaceAt(map, k, entry) == SubSeq(map, 1, k - 1) \o <<entry>> \o SubSeq(map, k + 1, Len(map))

\* The position of the line's entry in the map, 0 when it has none.
PositionOf(map, line) ==
  IF \E k \in 1..Len(map) : map[k].line = line
  THEN CHOOSE k \in 1..Len(map) : map[k].line = line
  ELSE 0

\* map.set / cur.sources.add of mergeExcerpts and of the Map of
\* buildHeadingExcerpts: an excerpt joins the entry of its line, which keeps its
\* text unless that is empty, or is appended.
PutAt(map, ex, k) ==
  IF k > 0 THEN ReplaceAt(map, k, Joined(map[k], ex))
  ELSE Append(map, [line |-> ex.line, text |-> ex.text, sources |-> AddAllToSet(<< >>, ex.sources)])

\* push(arr): for (const ex of arr) with cur = map.get(ex.line).
RECURSIVE PutExcerpts(_, _)
PutExcerpts(map, arr) ==
  IF arr = << >> THEN map
  ELSE IF PositionOf(map, Head(arr).line) > 0
  THEN PutExcerpts(PutAt(map, Head(arr), PositionOf(map, Head(arr).line)), Tail(arr))
  ELSE PutExcerpts(PutAt(map, Head(arr), 0), Tail(arr))

\* Array.from(map.entries()).sort((a, b) => a[0] - b[0]): the keys are distinct.
RECURSIVE SortByLine(_)
SortByLine(map) ==
  IF map = << >> THEN << >>
  ELSE LET m == CHOOSE k \in 1..Len(map) : \A j \in 1..Len(map) : map[k].line <= map[j].line
       IN <<map[m]>> \o SortByLine(SubSeq(map, 1, m - 1) \o SubSeq(map, m + 1, Len(map)))

\* The sources of a line are pushed to an array, not added to a Set.
PushAt(map, ex, k) ==
  IF k > 0 THEN ReplaceAt(map, k, [map[k] EXCEPT !.sources = @ \o ex.sources])
  ELSE Append(map, ex)

RECURSIVE PutExcerpts_Push(_, _)
PutExcerpts_Push(map, arr) ==
  IF arr = << >> THEN map
  ELSE IF PositionOf(map, Head(arr).line) > 0
  THEN PutExcerpts_Push(PushAt(map, Head(arr), PositionOf(map, Head(arr).line)), Tail(arr))
  ELSE PutExcerpts_Push(PushAt(map, Head(arr), 0), Tail(arr))

mergeExcerpts_PushSources(base, add, perFileLimit) ==
  Take(SortByLine(PutExcerpts_Push(PutExcerpts_Push(<< >>, base), add)), perFileLimit)

\* The cap is applied to the map in insertion order, before the sort.
mergeExcerpts_CapBeforeSort(base, add, perFileLimit) ==
  SortByLine(Take(PutExcerpts(PutExcerpts(<< >>, base), add), perFileLimit))

\* The excerpts are appended, not merged by line.
mergeExcerpts_Concat(base, add, perFileLimit) == Take(base \o add, perFileLimit)

mergeExcerpts(base, add, perFileLimit) ==
  Take(SortByLine(PutExcerpts(PutExcerpts(<< >>, base), add)), perFileLimit)

\* The heading matches the pattern, as buildHeadingExcerpts tests it.
HeadingOk(headingText, pat, caseSensitive) ==
  LET rx == tryParseExplicitRegex(pat) IN
  IF rx # Null THEN RegexTest(rx, headingText)
  ELSE matchPattern(headingText, pat, caseSensitive) = TRUE

\* lines[idx] ?? dflt, idx 0-based
LineAt(lines, idx, dflt) == IF idx >= 0 /\ idx < Len(lines) THEN lines[idx + 1] ELSE dflt

\* The (heading, pattern) pairs that match, in loop order, each as the excerpt of
\* the heading's line.  position.start.line is always a number in the cache.
\* One heading at line lineIdx, as the source of each pattern it matches.
HeadingSources(lineIdx, pats) ==
  [k \in 1..Len(pats) |->
     [line |-> lineIdx, text |-> << >>, sources |-> << <<"headings", ":">> \o pats[k] >>]]

RECURSIVE HeadingPairs(_, _, _)
HeadingPairs(headings, patterns, caseSensitive) ==
  IF headings = << >> THEN << >>
  ELSE HeadingSources(Head(headings).line,
                      IF Head(headings).heading = << >> THEN << >>
                      ELSE SelectSeq(patterns,
                                     LAMBDA pat : HeadingOk(Head(headings).heading, pat, caseSensitive)))
         \o HeadingPairs(Tail(headings), patterns, caseSensitive)

\* text: lines[idx] ?? ""
WithLineText(sorted, lines) ==
  [k \in 1..Len(sorted) |->
     [line |-> sorted[k].line, text |-> LineAt(lines, sorted[k].line, << >>),
      sources |-> sorted[k].sources]]

buildHeadingExcerpts(doc, text, patterns, caseSensitive) ==
  IF patterns = << >> \/ doc.headings = << >> THEN << >>
  ELSE WithLineText(SortByLine(PutExcerpts(<< >>, HeadingPairs(doc.headings, patterns, caseSensitive))),
                    SplitLines(text, << >>))

\* pushSynthetic(label, value, m)
Synthetic(label, value, mode) ==
  [line |-> -1, text |-> <<"[", label, "]", " ">> \o value,
   sources |-> << <<"globalQuery", ":", mode, ":", label>> >>]

\* The synthetic excerpt of each value, text being what Text gives for it.
SyntheticAll(label, values, Text(_), mode) ==
  [k \in 1..Len(values) |-> Synthetic(label, Text(values[k]), mode)]

\* The strings of the sequence that hit.
Hits(strs, gq) == SelectSeq(strs, LAMBDA v : testGlobalString(v, gq).hit)

RECURSIVE SyntheticFrontmatter(_, _)
SyntheticFrontmatter(fm, gq) ==
  IF fm = << >> THEN << >>
  ELSE SyntheticAll("frontmatter-key", Hits(<<Head(fm).key>>, gq), LAMBDA v : v, gq.mode)
         \o SyntheticAll("frontmatter", Hits(Head(fm).items, gq),
                         LAMBDA v : Head(fm).key \o <<":", " ">> \o v, gq.mode)
         \o SyntheticFrontmatter(Tail(fm), gq)

\* The excerpt of each heading that hit, on the heading's line.
SyntheticHeadings(heads, lines, mode) ==
  [k \in 1..Len(heads) |->
     [line |-> heads[k].line,
      text |-> <<"[", "headings", "]", " ">> \o LineAt(lines, heads[k].line, heads[k].heading),
      sources |-> << <<"globalQuery", ":", mode, ":", "headings">> >>]]

buildGlobalSyntheticExcerpts(doc, text, targets, gq) ==
  (IF targets["name"] THEN SyntheticAll("name", Hits(<<doc.name>>, gq), LAMBDA v : v, gq.mode)
   ELSE << >>)
  \o (IF targets["path"] THEN SyntheticAll("path", Hits(<<doc.path>>, gq), LAMBDA v : v, gq.mode)
      ELSE << >>)
  \o (IF targets["frontmatter"] /\ doc.hasFm THEN SyntheticFrontmatter(doc.fm, gq) ELSE << >>)
  \o (IF targets["tags"]
      THEN SyntheticAll("tag", Hits(getTagsForFile(doc), gq), LAMBDA v : v, gq.mode) ELSE << >>)
  \o (IF targets["headings"]
      THEN SyntheticHeadings(SelectSeq(doc.headings,
                                       LAMBDA h : h.heading # << >> /\ testGlobalString(h.heading, gq).hit),
                             SplitLines(text, << >>), gq.mode)
      ELSE << >>)

\* ------------------------------------------------------ runSearch, per file

\* for (const t of tags) if (rx.test(t)) return true; return tags.has(tg).  A
\* failed test leaves lastIndex 0, so each test of the loop starts at 0.
TagOk(tags, tg) ==
  LET rx == tryParseExplicitRegex(tg) IN
  IF rx # Null THEN \E k \in 1..Len(tags) : RegexTest(rx, tags[k])
  ELSE tg \in Range(tags)

\* propertyFilters.every(...) from the k-th filter on: [ok, lastIndex].  every
\* stops at the first filter that fails.
RECURSIVE PropertyEvery(_, _, _, _, _)
\* r is what matchProperty returned for the k-th filter.
EveryAfter(doc, pfs, k, caseSensitive, li, r) ==
  IF r.ok THEN PropertyEvery(doc, pfs, k + 1, caseSensitive, [li EXCEPT ![k] = r.lastIndex])
  ELSE [ok |-> FALSE, lastIndex |-> [li EXCEPT ![k] = r.lastIndex]]

PropertyEvery(doc, pfs, k, caseSensitive, li) ==
  IF k > Len(pfs) THEN [ok |-> TRUE, lastIndex |-> li]
  ELSE EveryAfter(doc, pfs, k, caseSensitive, li, matchProperty(doc, pfs[k], caseSensitive, li[k]))

\* propertyFilters.reduce(...) from the k-th filter on: [count, lastIndex].
RECURSIVE PropertyReduce(_, _, _, _, _)
\* ok is what matchProperty returned for the filter before, rest the reduction
\* of the filters after it.
Reduced(ok, rest) == [count |-> (IF ok THEN 1 ELSE 0) + rest.count, lastIndex |-> rest.lastIndex]

\* r is what matchProperty returned for the k-th filter.
ReduceAfter(doc, pfs, k, caseSensitive, li, r) ==
  Reduced(r.ok, PropertyReduce(doc, pfs, k + 1, caseSensitive, [li EXCEPT ![k] = r.lastIndex]))

PropertyReduce(doc, pfs, k, caseSensitive, li) ==
  IF k > Len(pfs) THEN [count |-> 0, lastIndex |-> li]
  ELSE ReduceAfter(doc, pfs, k, caseSensitive, li, matchProperty(doc, pfs[k], caseSensitive, li[k]))

\* The heading gate is left out.
Gates_NoHeadingGate(doc, q, caseSensitive, li) ==
  IF /\ \A k \in 1..Len(q.filePatterns) : matchPattern(doc.name, q.filePatterns[k], caseSensitive) = TRUE
     /\ \A k \in 1..Len(q.pathPatterns) : matchPattern(doc.path, q.pathPatterns[k], caseSensitive) = TRUE
     /\ \A k \in 1..Len(q.tagFilters) : TagOk(getTagsForFile(doc), q.tagFilters[k])
  THEN PropertyEvery(doc, q.propertyFilters, 1, caseSensitive, li)
  ELSE [ok |-> FALSE, lastIndex |-> li]

\* The heading gate, p being what the property gate returned.
HeadingGate(doc, q, caseSensitive, p) ==
  [ok |-> p.ok /\ \A k \in 1..Len(q.headingPatterns) :
                    matchHeading(doc, q.headingPatterns[k], caseSensitive),
   lastIndex |-> p.lastIndex]

\* The five gates before the body read: file, path, tag, property, headings.
\* [ok, lastIndex]; a file rejected before the property gate tests no property.
Gates(doc, q, caseSensitive, li) ==
  IF /\ \A k \in 1..Len(q.filePatterns) : matchPattern(doc.name, q.filePatterns[k], caseSensitive) = TRUE
     /\ \A k \in 1..Len(q.pathPatterns) : matchPattern(doc.path, q.pathPatterns[k], caseSensitive) = TRUE
     /\ \A k \in 1..Len(q.tagFilters) : TagOk(getTagsForFile(doc), q.tagFilters[k])
  THEN HeadingGate(doc, q, caseSensitive, PropertyEvery(doc, q.propertyFilters, 1, caseSensitive, li))
  ELSE [ok |-> FALSE, lastIndex |-> li]

\* How many entries of the sequence satisfy the test.
CountIf(seq, Test(_)) == Cardinality({k \in 1..Len(seq) : Test(seq[k])})

\* filterHits; -1 stands for an absent (undefined) field.
FilterHits(doc, body, q, opt, lineDetail, facets, propertyCount) ==
  LET cs == opt.caseSensitive
  IN [file     |-> IF q.filePatterns = << >> THEN -1
                   ELSE CountIf(q.filePatterns, LAMBDA pat : matchPattern(doc.name, pat, cs) = TRUE),
      path     |-> IF q.pathPatterns = << >> THEN -1
                   ELSE CountIf(q.pathPatterns, LAMBDA pat : matchPattern(doc.path, pat, cs) = TRUE),
      tag      |-> IF q.tagFilters = << >> THEN -1
                   ELSE CountIf(q.tagFilters, LAMBDA tg : TagOk(getTagsForFile(doc), tg)),
      property |-> IF q.propertyFilters = << >> THEN -1 ELSE propertyCount,
      headings |-> IF q.headingPatterns = << >> THEN -1
                   ELSE CountIf(q.headingPatterns, LAMBDA pat : matchHeading(doc, pat, cs)),
      content  |-> IF q.contentPatterns = << >> THEN -1
                   ELSE CountIf(q.contentPatterns, LAMBDA pat : contentContains(body, pat, cs)),
      line     |-> IF q.linePatterns = << >> THEN -1 ELSE lineDetail.hitCount,
      globalQueryBreakdown |-> [f \in Facets |-> IF q.globalQuery = << >> THEN -1 ELSE facets[f].count],
      globalQuery |-> IF q.globalQuery = << >> THEN -1
                      ELSE facets["body"].count + facets["name"].count + facets["path"].count
                           + facets["frontmatter"].count + facets["tags"].count
                           + facets["headings"].count]

NoLine == [present |-> FALSE, patternLiteral |-> << >>, hitCount |-> 0, hitLineIndices |-> << >>]

\* lineDetail, from what countLineMatches_AND returned.
LineDetail(q, counted) ==
  IF q.linePatterns = << >> THEN NoLine
  ELSE [present |-> TRUE, patternLiteral |-> q.linePatterns[1],
        hitCount |-> counted.hitCount, hitLineIndices |-> counted.hitLineIndices]

SumCounts(facets) ==
  facets["body"].count + facets["name"].count + facets["path"].count
    + facets["frontmatter"].count + facets["tags"].count + facets["headings"].count

\* The MatchLog entry; -1 stands for an absent (undefined) regexMatchCount.
LogEntry(doc, q, opt, lineDetail, facets, excerpts, filterHits) ==
  [path |-> doc.path, name |-> doc.name, mtime |-> doc.mtime,
   line |-> lineDetail,
   regexMatchCount |-> IF opt.mode = "regex" /\ q.globalQuery # << >> THEN SumCounts(facets) ELSE -1,
   excerpts |-> excerpts,
   filterHits |-> filterHits]

Rejected(passed, lineHits, li) ==
  [passed |-> passed, accepted |-> FALSE, lineHits |-> lineHits, lastIndex |-> li, entry |-> "none"]

\* The file is accepted: the excerpts are merged, the statistics taken and the
\* entry built.  stats is what the property statistics returned.
Accepted(doc, body, q, opt, lineDetail, facets, base, heading, synth, stats) ==
  [passed |-> TRUE, accepted |-> TRUE, lineHits |-> lineDetail.hitCount,
   lastIndex |-> stats.lastIndex,
   entry |-> LogEntry(doc, q, opt, lineDetail, facets,
                      mergeExcerpts(mergeExcerpts(base, heading, PerFileLimit), synth, PerFileLimit),
                      FilterHits(doc, body, q, opt, lineDetail, facets, stats.count))]

\* The free-text phase and what follows it, lineDetail being the line filter's
\* detail and facets the result of the free-text phase.
AfterLine(doc, body, q, opt, g, li, lineDetail, facets) ==
  IF ~gqHit(q.globalQuery, facets) THEN Rejected(TRUE, lineDetail.hitCount, li)
  ELSE Accepted(doc, body, q, opt, lineDetail, facets,
                extractHitLines(body, q, opt, g, PerFileLimit),
                buildHeadingExcerpts(doc, body, q.headingPatterns, opt.caseSensitive),
                buildGlobalSyntheticExcerpts(doc, body, opt.globalQueryTargets, g),
                PropertyReduce(doc, q.propertyFilters, 1, opt.caseSensitive, li))

\* The line filter and what follows it, counted being what countLineMatches_AND
\* returned (not evaluated when there is no line filter).
AfterContent(doc, body, q, opt, g, li, counted) ==
  IF q.linePatterns # << >> /\ ~counted.hasAnyHit THEN Rejected(FALSE, 0, li)
  ELSE AfterLine(doc, body, q, opt, g, li, LineDetail(q, counted),
                 GlobalFacets(doc, body, g, opt.globalQueryTargets))

\* The loop body of runSearch after the body read, for one file:
\*   passed     the content and line filters passed
\*   accepted   the file is accepted
\*   lineHits   what was added to totalLineHits
\*   lastIndex  the property regexes' lastIndex afterwards
\*   entry      the MatchLog pushed when accepted
Evaluate(doc, body, q, opt, g, li) ==
  IF \E k \in 1..Len(q.contentPatterns) :
       ~contentContains(body, q.contentPatterns[k], opt.caseSensitive)
  THEN Rejected(FALSE, 0, li)
  ELSE AfterContent(doc, body, q, opt, g, li,
                    countLineMatches_AND(body, q.linePatterns[1], opt.caseSensitive))

\* ------------------------------------------------------- runSearch, the loop

\* Collation of a.localeCompare(b): first by the characters with letter case
\* ignored (punctuation before letters), then lower case before upper case.
PrimaryRank(c) ==
  CASE c = "/" -> 1 [] c = "." -> 2
    [] c \in {"a", "A"} -> 10 [] c \in {"b", "B"} -> 11 [] c \in {"d", "D"} -> 12
    [] OTHER -> 20

IsUpper(c) == LowerChar(c) # c

\* The key of a character at a collation level.
CollationKey(c, level) ==
  IF level = "primary" THEN PrimaryRank(c) ELSE (IF IsUpper(c) THEN 1 ELSE 0)

RECURSIVE CompareBy(_, _, _)
CompareBy(a, b, level) ==
  IF a = << >> /\ b = << >> THEN 0
  ELSE IF a = << >> THEN -1
  ELSE IF b = << >> THEN 1
  ELSE IF CollationKey(Head(a), level) < CollationKey(Head(b), level) THEN -1
  ELSE IF CollationKey(Head(a), level) > CollationKey(Head(b), level) THEN 1
  ELSE CompareBy(Tail(a), Tail(b), level)

localeCompare(a, b) ==
  LET primary == CompareBy(a, b, "primary") IN
  IF primary # 0 THEN primary ELSE CompareBy(a, b, "case")

\* The comparator of sortedFiles.sort under the sort option.
CompareFiles(a, b, sort) ==
  CASE sort = "mtime-desc" -> b.mtime - a.mtime
    [] sort = "mtime-asc"  -> a.mtime - b.mtime
    [] OTHER               -> localeCompare(a.path, b.path)

\* Array.prototype.sort is stable: x goes before the first element it precedes.
RECURSIVE InsertSorted(_, _, _)
InsertSorted(sorted, x, sort) ==
  IF sorted = << >> THEN <<x>>
  ELSE IF CompareFiles(x, Head(sorted), sort) < 0 THEN <<x>> \o sorted
  ELSE <<Head(sorted)>> \o InsertSorted(Tail(sorted), x, sort)

RECURSIVE SortAll(_, _, _)
SortAll(sorted, rest, sort) ==
  IF rest = << >> THEN sorted ELSE SortAll(InsertSorted(sorted, Head(rest), sort), Tail(rest), sort)

\* sortedFiles is the copy of files, left as it is.
SortFiles_Unsorted(fs, sort) == fs

\* sortedFiles: a copy of files, sorted when the option names a known order.
SortFiles(fs, sort) ==
  IF sort \in {"mtime-desc", "mtime-asc", "path-asc"} THEN SortAll(<< >>, fs, sort) ELSE fs

\* The break comes one result late.
ReachedLimit_OneLate(n, limit) == limit > 0 /\ n > limit

\* The break after every push.
ReachedLimit_Never(n, limit) == FALSE

\* matches.length >= maxResults, maxResults being Infinity unless limit > 0.
ReachedLimit(n, limit) == limit > 0 /\ n >= limit

ZeroLastIndex(q) == [k \in 1..Len(q.propertyFilters) |-> 0]

Start ==
  /\ pc = "start"
  /\ files # << >>
  /\ \E g \in {PrepareQuery(parsedQuery.globalQuery, searchOptions.mode)} :
       /\ g.regex.kind # "SyntaxError"
       /\ prepared' = g
  /\ sortedFiles' = SortFiles(files, searchOptions.sort)
  /\ fileIdx' = 1
  /\ pc' = "gate"
  /\ UNCHANGED <<files, parsedQuery, searchOptions, bodyText, matches, totalLineHits, matchedFiles,
                 regexLastIndex, reads, passedGates, passedFilters, mpVars, lrVars, meVars, uiVars, pfVars, rvVars, plVars>>

\* if (!files.length) return { matches: [], ... }
ReturnEmpty ==
  /\ pc = "start"
  /\ files = << >>
  /\ pc' = "done"
  /\ UNCHANGED <<files, parsedQuery, searchOptions, prepared, sortedFiles, fileIdx, bodyText, matches,
                 totalLineHits, matchedFiles, regexLastIndex, reads, passedGates, passedFilters,
                 mpVars, lrVars, meVars, uiVars, pfVars, rvVars, plVars>>

\* new RegExp(parsed.globalQuery, "i") throws: runSearch rejects.
ThrowSyntaxError ==
  /\ pc = "start"
  /\ files # << >>
  /\ PrepareQuery(parsedQuery.globalQuery, searchOptions.mode).regex.kind = "SyntaxError"
  /\ pc' = "threw"
  /\ UNCHANGED <<files, parsedQuery, searchOptions, prepared, sortedFiles, fileIdx, bodyText, matches,
                 totalLineHits, matchedFiles, regexLastIndex, reads, passedGates, passedFilters,
                 mpVars, lrVars, meVars, uiVars, pfVars, rvVars, plVars>>

\* The five metadata gates on the next file: continue when one fails.
Gate ==
  /\ pc = "gate"
  /\ fileIdx <= Len(sortedFiles)
  /\ \E r \in {Gates(sortedFiles[fileIdx], parsedQuery, searchOptions.caseSensitive, regexLastIndex)} :
       /\ regexLastIndex' = r.lastIndex
       /\ passedGates' = IF r.ok THEN passedGates \cup {sortedFiles[fileIdx].path} ELSE passedGates
       /\ fileIdx' = IF r.ok THEN fileIdx ELSE fileIdx + 1
       /\ pc' = IF r.ok THEN "read" ELSE "gate"
  /\ UNCHANGED <<files, parsedQuery, searchOptions, prepared, sortedFiles, bodyText, matches,
                 totalLineHits, matchedFiles, reads, passedFilters, mpVars, lrVars, meVars, uiVars, pfVars, rvVars, plVars>>

\* const text = await app.vault.cachedRead(file)
ReadOk ==
  /\ pc = "read"
  /\ reads' = Append(reads, sortedFiles[fileIdx].path)
  /\ bodyText' = sortedFiles[fileIdx].body
  /\ pc' = "eval"
  /\ UNCHANGED <<files, parsedQuery, searchOptions, prepared, sortedFiles, fileIdx, matches,
                 totalLineHits, matchedFiles, regexLastIndex, passedGates, passedFilters,
                 mpVars, lrVars, meVars, uiVars, pfVars, rvVars, plVars>>

\* cachedRead rejects: nothing catches it, runSearch rejects.
ReadFail ==
  /\ pc = "read"
  /\ reads' = Append(reads, sortedFiles[fileIdx].path)
  /\ pc' = "threw"
  /\ UNCHANGED <<files, parsedQuery, searchOptions, prepared, sortedFiles, fileIdx, bodyText, matches,
                 totalLineHits, matchedFiles, regexLastIndex, passedGates, passedFilters,
                 mpVars, lrVars, meVars, uiVars, pfVars, rvVars, plVars>>

\* The rest of the loop body: continue when the content filter, the line
\* filter or the free-text query fails; else the entry is pushed, and the loop
\* breaks at the limit.
EvaluateFile ==
  /\ pc = "eval"
  /\ \E r \in {Evaluate(sortedFiles[fileIdx], bodyText, parsedQuery, searchOptions, prepared,
                         regexLastIndex)} :
       /\ totalLineHits' = totalLineHits + r.lineHits
       /\ matchedFiles' = IF r.accepted THEN matchedFiles + 1 ELSE matchedFiles
       /\ passedFilters' = IF r.passed THEN passedFilters \cup {sortedFiles[fileIdx].path}
                           ELSE passedFilters
       /\ regexLastIndex' = r.lastIndex
       /\ matches' = IF r.accepted THEN Append(matches, r.entry) ELSE matches
       /\ pc' = IF r.accepted /\ ReachedLimit(Len(matches) + 1, searchOptions.limit)
                THEN "finish" ELSE "gate"
  /\ fileIdx' = fileIdx + 1
  /\ bodyText' = "none"
  /\ UNCHANGED <<files, parsedQuery, searchOptions, prepared, sortedFiles, reads, passedGates,
                 mpVars, lrVars, meVars, uiVars, pfVars, rvVars, plVars>>

\* The loop is over: return { matches, summary }.
Finish ==
  /\ IF pc = "gate" THEN fileIdx > Len(sortedFiles) ELSE pc = "finish"
  /\ pc' = "done"
  /\ UNCHANGED <<files, parsedQuery, searchOptions, prepared, sortedFiles, fileIdx, bodyText, matches,
                 totalLineHits, matchedFiles, regexLastIndex, reads, passedGates, passedFilters,
                 mpVars, lrVars, meVars, uiVars, pfVars, rvVars, plVars>>

NextSearch ==
  \/ Start \/ ReturnEmpty \/ ThrowSyntaxError
  \/ Gate
  \/ ReadOk \/ ReadFail
  \/ EvaluateFile
  \/ Finish

\* runSearch as a function of its inputs when every read succeeds: the loop from
\* the k-th sorted file on.  acc is [matches, totalLineHits, matchedFiles].
RECURSIVE RunLoop(_, _, _, _, _, _, _)
RunLoop(sorted, k, q, opt, g, li, acc) ==
  IF k > Len(sorted) THEN acc
  ELSE LET doc  == sorted[k]
           gate == Gates(doc, q, opt.caseSensitive, li)
           r    == Evaluate(doc, doc.body, q, opt, g, gate.lastIndex)
       IN IF ~gate.ok THEN RunLoop(sorted, k + 1, q, opt, g, gate.lastIndex, acc)
          ELSE IF ~r.accepted
          THEN RunLoop(sorted, k + 1, q, opt, g, r.lastIndex,
                       [acc EXCEPT !.totalLineHits = @ + r.lineHits])
          ELSE LET acc2 == [matches       |-> Append(acc.matches, r.entry),
                            totalLineHits |-> acc.totalLineHits + r.lineHits,
                            matchedFiles  |-> acc.matchedFiles + 1]
               IN IF ReachedLimit(Len(acc2.matches), opt.limit) THEN acc2
                  ELSE RunLoop(sorted, k + 1, q, opt, g, r.lastIndex, acc2)

EmptyResult == [matches |-> << >>, totalLineHits |-> 0, matchedFiles |-> 0]

runSearch(fs, q, opt) ==
  IF fs = << >> THEN EmptyResult
  ELSE RunLoop(SortFiles(fs, opt.sort), 1, q, opt, PrepareQuery(q.globalQuery, opt.mode),
               ZeroLastIndex(q), EmptyResult)

\* ------------------------------------------------------ runSearch's inputs

\* Most files of a vault.
MaxDocs == 2

DocA ==
  [path |-> <<"a">>, name |-> <<"a">>, mtime |-> 1,
   tags |-> << <<"#", "t">> >>,
   hasFm |-> TRUE, fm |-> << [key |-> <<"k">>, list |-> FALSE, items |-> << <<"a">> >>] >>,
   headings |-> << [heading |-> <<"a">>, line |-> 0] >>,
   body |-> <<"a", "LF", "b">>]

DocB ==
  [path |-> <<"d", "/", "A">>, name |-> <<"A">>, mtime |-> 2,
   tags |-> << >>,
   hasFm |-> TRUE,
   fm |-> << [key |-> <<"k">>, list |-> FALSE, items |-> << <<"a">> >>],
             [key |-> TagsKey, list |-> FALSE, items |-> << <<"t", ",", " ", "u">> >>] >>,
   headings |-> << >>,
   body |-> <<"A", " ", "b", "CR", "LF", "a", "b">>]

DocC ==
  [path |-> <<"b">>, name |-> <<"b">>, mtime |-> 2,
   tags |-> << <<"#", "T">> >>,
   hasFm |-> FALSE, fm |-> << >>,
   headings |-> << [heading |-> <<"b">>, line |-> 1], [heading |-> <<"A">>, line |-> 1] >>,
   body |-> <<"b", "LF", "a", "LF", "A", "b">>]

\* Twelve lines: eleven hold "a", the last does not.
DocD ==
  [path |-> <<"d", "/", "b">>, name |-> <<"b">>, mtime |-> 3,
   tags |-> << <<"#", "t">>, <<"#", "t">> >>,
   hasFm |-> TRUE, fm |-> << [key |-> <<"k">>, list |-> TRUE, items |-> << <<"b">>, <<"a">> >>] >>,
   headings |-> << [heading |-> <<"a">>, line |-> 10], [heading |-> <<"a", "b">>, line |-> 2] >>,
   body |-> <<"a", "LF", "a", "LF", "a", "b", "LF", "a", "LF", "a", "LF", "a", "LF",
              "a", "LF", "a", "LF", "a", "LF", "a", "LF", "a", " ", "b", "LF", "b">>]

\* An empty file.
DocE ==
  [path |-> <<"A">>, name |-> <<"A">>, mtime |-> 1,
   tags |-> << >>, hasFm |-> TRUE, fm |-> << >>, headings |-> << >>, body |-> << >>]

DocPool == {DocA, DocB, DocC, DocD, DocE}

\* A vault: up to MaxDocs files of distinct paths, in any order.
Vaults ==
  {fs \in UNION {[1..n -> DocPool] : n \in 0..MaxDocs} :
     \A i, j \in 1..Len(fs) : i # j => fs[i].path # fs[j].path}

\* The property filter the form builds from its name and value inputs:
\* { name, value: tryParseExplicitRegex(raw) ?? raw }, value null when raw is empty.
PropertyFilter(name, raw) ==
  LET rx == tryParseExplicitRegex(raw) IN
  [name |-> name,
   kind |-> IF raw = << >> THEN "null" ELSE IF rx # Null THEN "regex" ELSE "string",
   str  |-> raw,
   rx   |-> rx]

\* A dedicated filter entry is [kind, value].
FilterPool ==
  {[kind |-> "file", value |-> v] : v \in {<<"a">>, <<"/", "b", "/">>}}
  \cup {[kind |-> "path", value |-> v] : v \in {<<"d">>, <<"*", "a">>}}
  \cup {[kind |-> "tag", value |-> v] : v \in {<<"t">>, <<"/", "t", "/", "i">>}}
  \cup {[kind |-> "content", value |-> v] : v \in {<<"a", "b">>, <<"/", "^", "a", "/">>}}
  \cup {[kind |-> "heading", value |-> v] : v \in {<<"a">>, <<"/", "B", "/", "i">>}}
  \cup {[kind |-> "property", value |-> PropertyFilter(<<"k">>, raw)] :
          raw \in {<< >>, <<"a">>, <<"/", "a", "/">>, <<"/", "a", "/", "g">>}}

ValuesOf(entries, kind) ==
  LET sel == SelectSeq(entries, LAMBDA e : e.kind = kind) IN [k \in 1..Len(sel) |-> sel[k].value]

\* The ParsedQuery the form submits: the chips of each list in their order, the
\* line terms as one AND literal, the free-text query trimmed.
BuildQuery(entries, lineTerms, globalQuery, caseSensitive) ==
  [filePatterns    |-> ValuesOf(entries, "file"),
   pathPatterns    |-> ValuesOf(entries, "path"),
   tagFilters      |-> ValuesOf(entries, "tag"),
   propertyFilters |-> ValuesOf(entries, "property"),
   headingPatterns |-> ValuesOf(entries, "heading"),
   contentPatterns |-> ValuesOf(entries, "content"),
   linePatterns    |-> IF lineTerms = << >> THEN << >>
                       ELSE <<buildLineRegexLiteral_AND(lineTerms, caseSensitive)>>,
   globalQuery     |-> trim(globalQuery)]

Targets(S) == [f \in Facets |-> f \in S]

SearchOptions(mode, caseSensitive, sort, limit, targets) ==
  [mode |-> mode, caseSensitive |-> caseSensitive, sort |-> sort, limit |-> limit,
   globalQueryTargets |-> targets]

\* The state runSearch starts in, for a vault, a query and options.
Begin(fs, q, opt) ==
  /\ IdlePattern /\ IdleLine /\ IdleMerge /\ IdleModal /\ IdleProperty /\ IdleView /\ IdlePlugin
  /\ files = fs /\ parsedQuery = q /\ searchOptions = opt
  /\ prepared = "none" /\ sortedFiles = << >> /\ fileIdx = 0 /\ bodyText = "none"
  /\ matches = << >> /\ totalLineHits = 0 /\ matchedFiles = 0
  /\ regexLastIndex = ZeroLastIndex(q)
  /\ pc = "start" /\ reads = << >> /\ passedGates = {} /\ passedFilters = {}

\* One or two dedicated filter entries, no free-text query, no limit.
InitFilters ==
  \E fs \in Vaults, p \in FilterPool, q \in FilterPool, two \in BOOLEAN, cs \in BOOLEAN :
    /\ ~two => p = q
    /\ Begin(fs, BuildQuery(IF two THEN <<p, q>> ELSE <<p>>, << >>, << >>, cs),
             SearchOptions("simple", cs, "mtime-desc", 0, Targets(Facets)))

QueryPool ==
  {<<"a">>, <<"A", " ", "b">>, <<"a", "b">>, <<"/", "b", "/">>, <<"*">>, <<"b", "a">>,
   <<"/", "a", "/">>}

TargetPool == {Targets({})} \cup {Targets({f}) : f \in Facets} \cup {Targets(Facets)}

\* A free-text query alone, in every mode.
InitFreeText ==
  \E fs \in Vaults, query \in QueryPool, mode \in {"simple", "fuzzy", "regex", "exact"},
     targets \in TargetPool, cs \in BOOLEAN :
    Begin(fs, BuildQuery(<< >>, << >>, query, cs), SearchOptions(mode, cs, "mtime-desc", 0, targets))

\* Line terms, content and heading patterns and a free-text query together.
InitEvidence ==
  \E fs \in Vaults,
     lineTerms \in {<< >>, << <<"a">> >>, << <<"a">>, <<"b">> >>},
     contents \in {<< >>, << <<"a">> >>, << <<"a">>, <<"/", "A", "/", "i">> >>},
     headings \in {<< >>, << <<"a">> >>},
     free \in {<< << >>, "simple" >>, << <<"a">>, "simple" >>, << <<"a">>, "regex" >>,
               << <<"A">>, "exact" >>, << <<"b", "a">>, "simple" >>},
     targets \in {Targets({"body"}), Targets(Facets)},
     cs \in BOOLEAN :
    Begin(fs,
          BuildQuery([k \in 1..Len(contents) |-> [kind |-> "content", value |-> contents[k]]]
                       \o [k \in 1..Len(headings) |-> [kind |-> "heading", value |-> headings[k]]],
                     lineTerms, free[1], cs),
          SearchOptions(free[2], cs, "mtime-desc", 0, targets))

\* The sort orders and result limits.
InitOrder ==
  \E fs \in Vaults, sort \in {"mtime-desc", "mtime-asc", "path-asc", "none"}, limit \in 0..MaxDocs,
     entries \in {<< >>, << [kind |-> "file", value |-> <<"b">>] >>} :
    Begin(fs, BuildQuery(entries, << >>, << >>, FALSE),
          SearchOptions("simple", FALSE, sort, limit, Targets(Facets)))

InitSearch == InitFilters \/ InitFreeText \/ InitEvidence \/ InitOrder

Spec == InitSearch /\ [][NextSearch]_vars

\* ------------------------------------------------------- the query modal

\* Most chips of one list.
MaxChips == 1

\* tokenizeWithQuotes from position i on (1-based): white space is skipped; a
\* double quote opens a phrase that runs to the next quote or the end of the
\* input; anything else runs to the next white space.  Empty tokens are not
\* pushed.
RECURSIVE QuotedEnd(_, _)
QuotedEnd(input, i) ==
  IF i > Len(input) \/ input[i] = "\"" THEN i ELSE QuotedEnd(input, i + 1)

RECURSIVE WordEnd(_, _)
WordEnd(input, i) ==
  IF i > Len(input) \/ IsSpace(input[i]) THEN i ELSE WordEnd(input, i + 1)

\* The token input[from..to-1], pushed when not empty.
Pushed(input, from, to) == IF to > from THEN <<SubSeq(input, from, to - 1)>> ELSE << >>

RECURSIVE TokensFrom(_, _)
TokensFrom(input, i) ==
  IF i > Len(input) THEN << >>
  ELSE IF IsSpace(input[i]) THEN TokensFrom(input, i + 1)
  ELSE IF input[i] = "\""
  THEN Pushed(input, i + 1, QuotedEnd(input, i + 1))
         \o TokensFrom(input, QuotedEnd(input, i + 1) + 1)
  ELSE Pushed(input, i, WordEnd(input, i)) \o TokensFrom(input, WordEnd(input, i))

tokenizeWithQuotes(input) == TokensFrom(input, 1)

\* for (const t of terms) if (!this.lineTerms.includes(t)) this.lineTerms.push(t)
AddLineTerms(lineTerms, terms) == AddAllToSet(lineTerms, terms)

\* What is typed into the inputs of the modal.
ChipInputs == {<<" ">>, <<"#", "a">>}
LineTermInputs == {<<" ">>, <<"a", " ", "a">>, <<"\"", "\"">>}
PropertyNameInputs == {<< >>, <<"k">>}
PropertyValueInputs == {<< >>, <<" ">>}
QueryInputs == {<< >>, <<" ">>, <<"a">>}

\* A new modal: every list empty, the free-text input empty.
InitModal ==
  /\ IdlePattern /\ IdleLine /\ IdleSearch /\ IdleMerge /\ IdleProperty /\ IdleView /\ IdlePlugin
  /\ uiChips = [kind \in ChipKinds |-> << >>] /\ uiLineTerms = << >> /\ uiQueryInput = << >>
  /\ uiOpen = TRUE /\ uiSubmitted = << >> /\ uiNotice = "none"

\* The value a row hands to addChip: the tag row strips one leading "#".
RowValue(kind, val) == IF kind = "tag" THEN StripHash(val) ELSE val

\* addChip(arr, v): the chip pushed, or no chip when v.trim() is empty.
addChip(arr, v) == IF trim(v) = << >> THEN arr ELSE Append(arr, trim(v))

\* handleAdd of a row of string chips ("+" or Enter), on what the input holds.
AddChip ==
  /\ uiOpen
  /\ \E kind \in ChipKinds \ {"property"}, raw \in ChipInputs :
       \E arr \in {IF trim(raw) = << >> THEN uiChips[kind]
                   ELSE addChip(uiChips[kind], RowValue(kind, trim(raw)))} :
         /\ Len(arr) <= MaxChips
         /\ uiChips' = [uiChips EXCEPT ![kind] = arr]
         /\ uiNotice' = IF arr = uiChips[kind] THEN "Value is empty." ELSE uiNotice
  /\ UNCHANGED <<uiLineTerms, uiQueryInput, uiOpen, uiSubmitted, mpVars, lrVars, rsVars, meVars, pfVars, rvVars, plVars>>

\* handleAdd of the line terms row.
AddLineTerm ==
  /\ uiOpen
  /\ \E raw \in LineTermInputs :
       \E terms \in {tokenizeWithQuotes(trim(raw))} :
         /\ Len(AddLineTerms(uiLineTerms, terms)) <= MaxChips
         /\ uiLineTerms' = IF trim(raw) = << >> THEN uiLineTerms
                           ELSE AddLineTerms(uiLineTerms, terms)
         /\ uiNotice' = IF trim(raw) = << >> THEN "Value is empty."
                        ELSE IF terms = << >> THEN "No valid terms."
                        ELSE uiNotice
  /\ UNCHANGED <<uiChips, uiQueryInput, uiOpen, uiSubmitted, mpVars, lrVars, rsVars, meVars, pfVars, rvVars, plVars>>

\* handleAdd of the property row.
AddProperty ==
  /\ uiOpen
  /\ \E name \in PropertyNameInputs, raw \in PropertyValueInputs :
       IF trim(name) = << >>
       THEN uiNotice' = "Enter a property name." /\ UNCHANGED uiChips
       ELSE /\ Len(uiChips["property"]) < MaxChips
            /\ uiChips' = [uiChips EXCEPT
                             !["property"] = Append(@, PropertyFilter(trim(name), trim(raw)))]
            /\ UNCHANGED uiNotice
  /\ UNCHANGED <<uiLineTerms, uiQueryInput, uiOpen, uiSubmitted, mpVars, lrVars, rsVars, meVars, pfVars, rvVars, plVars>>

\* list.splice(idx, 1)
Splice(list, idx) == SubSeq(list, 1, idx - 1) \o SubSeq(list, idx + 1, Len(list))

\* The x button of a chip.
DeleteChip ==
  /\ uiOpen
  /\ \E kind \in ChipKinds : \E idx \in 1..Len(uiChips[kind]) :
       uiChips' = [uiChips EXCEPT ![kind] = Splice(@, idx)]
  /\ UNCHANGED <<uiLineTerms, uiQueryInput, uiOpen, uiSubmitted, uiNotice,
                 mpVars, lrVars, rsVars, meVars, pfVars, rvVars, plVars>>

\* The x button of a line term.
DeleteLineTerm ==
  /\ uiOpen
  /\ \E idx \in 1..Len(uiLineTerms) : uiLineTerms' = Splice(uiLineTerms, idx)
  /\ UNCHANGED <<uiChips, uiQueryInput, uiOpen, uiSubmitted, uiNotice,
                 mpVars, lrVars, rsVars, meVars, pfVars, rvVars, plVars>>

\* The user edits the free-text input.
TypeQuery ==
  /\ uiOpen
  /\ \E q \in QueryInputs : q # uiQueryInput /\ uiQueryInput' = q
  /\ UNCHANGED <<uiChips, uiLineTerms, uiOpen, uiSubmitted, uiNotice,
                 mpVars, lrVars, rsVars, meVars, pfVars, rvVars, plVars>>

\* The chips of the modal as filter entries, list by list.
ChipEntries(chips, kind) == [k \in 1..Len(chips[kind]) |-> [kind |-> kind, value |-> chips[kind][k]]]

ModalEntries(chips) ==
  ChipEntries(chips, "file") \o ChipEntries(chips, "path") \o ChipEntries(chips, "tag")
    \o ChipEntries(chips, "content") \o ChipEntries(chips, "heading")
    \o ChipEntries(chips, "property")

\* The validation is left out.
NothingSpecified_Never(q) == FALSE

\* The test of submit: no free-text query and every list of p empty.
NothingSpecified(q) ==
  /\ q.globalQuery = << >>
  /\ q.filePatterns = << >> /\ q.pathPatterns = << >> /\ q.tagFilters = << >>
  /\ q.contentPatterns = << >> /\ q.linePatterns = << >> /\ q.headingPatterns = << >>
  /\ q.propertyFilters = << >>

\* submit(), by the Run button or Ctrl/Cmd+Enter: p is built, and either the
\* notice is shown or onSubmit is called and the modal closed.
Submit ==
  /\ uiOpen
  /\ \E cs \in BOOLEAN :
       \E q \in {BuildQuery(ModalEntries(uiChips), uiLineTerms, uiQueryInput, cs)} :
         IF NothingSpecified(q)
         THEN uiNotice' = "No filters specified. Please add at least one." /\ UNCHANGED <<uiOpen, uiSubmitted>>
         ELSE /\ uiSubmitted' = Append(uiSubmitted, [parsed |-> q, lineTerms |-> uiLineTerms])
              /\ uiOpen' = FALSE
              /\ UNCHANGED uiNotice
  /\ UNCHANGED <<uiChips, uiLineTerms, uiQueryInput, mpVars, lrVars, rsVars, meVars, pfVars, rvVars, plVars>>

NextModal ==
  AddChip \/ AddLineTerm \/ AddProperty \/ DeleteChip \/ DeleteLineTerm \/ TypeQuery \/ Submit

SpecModal == InitModal /\ [][NextModal]_vars

\* The modal holds nothing to filter on: the free-text input is empty or white
\* space, and each of the seven lists is empty.
ModalEmpty ==
  /\ trim(uiQueryInput) = << >>
  /\ \A kind \in ChipKinds : uiChips[kind] = << >>
  /\ uiLineTerms = << >>

\* C17: whatever chips were added and deleted, submit calls onSubmit only when
\* the trimmed free-text query or one of the seven filter lists is not empty,
\* and then closes the modal; otherwise it shows the validation notice, calls
\* nothing and leaves the modal open.  The modal is closed by nothing else.
C17_SubmitNeedsAFilter ==
  [][/\ uiSubmitted' # uiSubmitted => ~ModalEmpty /\ ~uiOpen'
     /\ (uiOpen /\ ~uiOpen') => uiSubmitted' # uiSubmitted
     /\ (Submit /\ ModalEmpty) =>
          uiSubmitted' = uiSubmitted /\ uiOpen' /\ uiNotice' = "No filters specified. Please add at least one."
     /\ (Submit /\ ~ModalEmpty) => Len(uiSubmitted') = Len(uiSubmitted) + 1]_vars

\* C17 witness: the modal holds no chip and white space as the free-text
\* query, it is open, nothing was submitted, and the last submit was answered
\* by the validation notice.
C17_Witness ==
  /\ uiOpen
  /\ ModalEmpty
  /\ uiQueryInput # << >>
  /\ uiSubmitted = << >>
  /\ uiNotice = "No filters specified. Please add at least one."

\* ------------------------------------------------ plugin: the results leaves

MaxCalls == 3

\* The state after onload: no result leaf, the default settings.  Popout
\* windows are available or not (workspace.openPopoutLeaf).
InitPlugin ==
  /\ IdlePattern /\ IdleLine /\ IdleSearch /\ IdleMerge /\ IdleModal /\ IdleProperty /\ IdleView
  /\ plPlugin = [splitLeaf |-> 0, windowLeaf |-> 0, defaultDisplayMode |-> "split"]
  /\ plCalls = << >>
  /\ plEnv \in [popout : BOOLEAN, next : {1}, views : {{}}]

LeafField(mode) == IF mode = "split" THEN "splitLeaf" ELSE "windowLeaf"

Opposite(mode) == IF mode = "split" THEN "window" ELSE "split"

\* leaf.detach(): the leaf and its view are gone.
Detached(env, leaf) == [env EXCEPT !.views = {v \in @ : v[1] # leaf}]

\* view.setData(results, { displayMode }): the view of the leaf shows the mode.
Rendered(env, leaf, mode) == [env EXCEPT !.views = {v \in @ : v[1] # leaf} \cup {<<leaf, mode>>}]

\* ensureWindowResultsView falls back to ensureSplitResultsView without popouts.
EnsureTarget(mode) == IF mode = "window" /\ ~plEnv.popout THEN "split" ELSE mode

\* showResults up to its first pending await: the opposite leaf is detached and
\* forgotten; a tracked leaf of the target is reused, the data set, the setting
\* written and saveSettings awaited; else a new leaf is made and its
\* setViewState awaited.
BeginShowResults(mode) ==
  LET closed == [plPlugin EXCEPT ![LeafField(Opposite(mode))] = 0]
      env    == Detached(plEnv, plPlugin[LeafField(Opposite(mode))])
      leaf   == closed[LeafField(EnsureTarget(mode))]
  IN IF leaf # 0
     THEN /\ plPlugin' = [closed EXCEPT !.defaultDisplayMode = mode]
          /\ plEnv' = Rendered(env, leaf, mode)
          /\ plCalls' = Append(plCalls, [pc |-> "saveSettings", mode |-> mode,
                                         target |-> EnsureTarget(mode), leaf |-> leaf])
     ELSE /\ plPlugin' = closed
          /\ plEnv' = [env EXCEPT !.next = @ + 1]
          /\ plCalls' = Append(plCalls, [pc |-> "setViewState", mode |-> mode,
                                         target |-> EnsureTarget(mode), leaf |-> plEnv.next])

\* handleSearchSubmit after runSearch has resolved: showResults in the mode the
\* settings name at that moment.
HandleSearchSubmit ==
  /\ Len(plCalls) < MaxCalls
  /\ BeginShowResults(plPlugin.defaultDisplayMode)
  /\ UNCHANGED <<mpVars, lrVars, rsVars, meVars, uiVars, pfVars, rvVars>>

\* A click on the toggle button of a rendered view that shows the other mode.
RequestSwitchDisplayMode ==
  \E mode \in {"split", "window"} :
    /\ Len(plCalls) < MaxCalls
    /\ \E v \in plEnv.views : v[2] # mode
    /\ IF plPlugin.defaultDisplayMode = mode
       THEN /\ plCalls' = Append(plCalls, [pc |-> "done", mode |-> mode, target |-> mode, leaf |-> 0])
            /\ UNCHANGED <<plPlugin, plEnv>>
       ELSE BeginShowResults(mode)
    /\ UNCHANGED <<mpVars, lrVars, rsVars, meVars, uiVars, pfVars, rvVars>>

\* setViewState of a new leaf resolved: the leaf is tracked, the data set, the
\* setting written and saveSettings awaited.
ViewStateSet ==
  \E k \in 1..Len(plCalls) :
    /\ plCalls[k].pc = "setViewState"
    /\ plPlugin' = [plPlugin EXCEPT ![LeafField(plCalls[k].target)] = plCalls[k].leaf,
                                     !.defaultDisplayMode = plCalls[k].mode]
    /\ plEnv' = Rendered(plEnv, plCalls[k].leaf, plCalls[k].mode)
    /\ plCalls' = [plCalls EXCEPT ![k].pc = "saveSettings"]
    /\ UNCHANGED <<mpVars, lrVars, rsVars, meVars, uiVars, pfVars, rvVars>>

\* saveSettings resolved: showResults returns.
SettingsSaved ==
  \E k \in 1..Len(plCalls) :
    /\ plCalls[k].pc = "saveSettings"
    /\ plCalls' = [plCalls EXCEPT ![k].pc = "done"]
    /\ UNCHANGED <<plPlugin, plEnv, mpVars, lrVars, rsVars, meVars, uiVars, pfVars, rvVars>>

NextPlugin == HandleSearchSubmit \/ RequestSwitchDisplayMode \/ ViewStateSet \/ SettingsSaved

SpecPlugin == InitPlugin /\ [][NextPlugin]_vars

\* Every call made has completed.
NoCallInFlight == plCalls # << >> /\ \A k \in 1..Len(plCalls) : plCalls[k].pc = "done"

\* C26: once every call in flight has completed, at most one of splitLeaf and
\* windowLeaf is non-null, and settings.defaultDisplayMode names the mode of the
\* leaf that is open, whatever the interleaving of the calls at their awaits.
C26_OneLeafInTheCurrentMode ==
  NoCallInFlight =>
    /\ ~(plPlugin.splitLeaf # 0 /\ plPlugin.windowLeaf # 0)
    /\ plPlugin.splitLeaf # 0 => plPlugin.defaultDisplayMode = "split"
    /\ plPlugin.windowLeaf # 0 => plPlugin.defaultDisplayMode = "window"

\* ------------------------------------------- results view: highlight helpers

\* A range is <<start, end>>, 0-based, end exclusive.

\* s.replace(/[&<>"']/g, c => entity of c)
RECURSIVE escapeHTML(_)
escapeHTML(s) ==
  IF s = << >> THEN << >>
  ELSE (CASE Head(s) = "&"  -> <<"&", "a", "m", "p", ";">>
          [] Head(s) = "<"  -> <<"&", "l", "t", ";">>
          [] Head(s) = ">"  -> <<"&", "g", "t", ";">>
          [] Head(s) = "\"" -> <<"&", "q", "u", "o", "t", ";">>
          [] Head(s) = "'"  -> <<"&", "#", "3", "9", ";">>
          [] OTHER -> <<Head(s)>>) \o escapeHTML(Tail(s))

\* hay.indexOf(t, idx): 0-based, -1 when absent.
indexOf(hay, t, idx) ==
  LET at == {k \in idx..(Len(hay) - Len(t)) : SubSeq(hay, k + 1, k + Len(t)) = t}
  IN IF at = {} THEN -1 ELSE CHOOSE k \in at : \A j \in at : k <= j

\* The while loop of collectRangesPlain from idx on.
RECURSIVE PlainFrom(_, _, _, _)
PlainFrom(hay, t, idx, out) ==
  IF indexOf(hay, t, idx) = -1 THEN out
  ELSE PlainFrom(hay, t, indexOf(hay, t, idx) + (IF Len(t) > 1 THEN Len(t) ELSE 1),
                 Append(out, <<indexOf(hay, t, idx), indexOf(hay, t, idx) + Len(t)>>))

collectRangesPlain(text, term, caseSensitive, out) ==
  IF term = << >> THEN out
  ELSE PlainFrom(IF caseSensitive THEN text ELSE toLowerCase(text),
                 IF caseSensitive THEN term ELSE toLowerCase(term), 0, out)

\* for (const m of text.matchAll(grx)) if (end > start) out.push([start, end])
RECURSIVE MatchAllFrom(_, _, _, _)
MatchAllFrom(grx, text, from, out) ==
  IF from > Len(text) + 1 \/ RegexExec(grx, text, from) = NoMatch THEN out
  ELSE LET m == RegexExec(grx, text, from) IN
       IF m.end = m.start THEN MatchAllFrom(grx, text, m.end + 1, out)
       ELSE MatchAllFrom(grx, text, m.end, Append(out, <<m.start - 1, m.end - 1>>))

collectRangesRegex(text, rx, out) == MatchAllFrom([rx EXCEPT !.global = TRUE], text, 1, out)

collectRangesGlob(text, glob, caseSensitive, out) ==
  MatchAllFrom([globToRegExp(glob, caseSensitive) EXCEPT !.global = TRUE], text, 1, out)

\* (a, b) => (a[0] - b[0]) || (a[1] - b[1])
RangeBefore(a, b) == a[1] < b[1] \/ (a[1] = b[1] /\ a[2] <= b[2])

\* ranges.sort(...)
RECURSIVE SortRanges(_)
SortRanges(ranges) ==
  IF ranges = << >> THEN << >>
  ELSE LET m == CHOOSE k \in 1..Len(ranges) :
                  /\ \A j \in 1..Len(ranges) : RangeBefore(ranges[k], ranges[j])
                  /\ \A j \in 1..(k - 1) : ranges[j] # ranges[k]
       IN <<ranges[m]>> \o SortRanges(SubSeq(ranges, 1, m - 1) \o SubSeq(ranges, m + 1, Len(ranges)))

\* Adjacent ranges are left apart: the test is s < ce.
RECURSIVE MergeLoop_Strict(_, _, _, _, _)
MergeLoop_Strict(sorted, i, cs, ce, out) ==
  IF i > Len(sorted) THEN Append(out, <<cs, ce>>)
  ELSE IF sorted[i][1] < ce
  THEN MergeLoop_Strict(sorted, i + 1, cs, IF sorted[i][2] > ce THEN sorted[i][2] ELSE ce, out)
  ELSE MergeLoop_Strict(sorted, i + 1, sorted[i][1], sorted[i][2], Append(out, <<cs, ce>>))

mergeRanges_Strict(ranges) ==
  IF ranges = << >> THEN ranges
  ELSE MergeLoop_Strict(SortRanges(ranges), 2, SortRanges(ranges)[1][1], SortRanges(ranges)[1][2], << >>)

\* The for loop of mergeRanges from the i-th range on, [cs, ce] the current run.
RECURSIVE MergeLoop(_, _, _, _, _)
MergeLoop(sorted, i, cs, ce, out) ==
  IF i > Len(sorted) THEN Append(out, <<cs, ce>>)
  ELSE IF sorted[i][1] <= ce
  THEN MergeLoop(sorted, i + 1, cs, IF sorted[i][2] > ce THEN sorted[i][2] ELSE ce, out)
  ELSE MergeLoop(sorted, i + 1, sorted[i][1], sorted[i][2], Append(out, <<cs, ce>>))

mergeRanges(ranges) ==
  IF ranges = << >> THEN ranges
  ELSE MergeLoop(SortRanges(ranges), 2, SortRanges(ranges)[1][1], SortRanges(ranges)[1][2], << >>)

\* The first loop of buildHighlightedHTML: regex literal, glob or plain.
RECURSIVE CollectContent(_, _, _, _)
CollectContent(text, pats, caseSensitive, out) ==
  IF pats = << >> THEN out
  ELSE CollectContent(text, Tail(pats), caseSensitive,
         IF tryParseExplicitRegex(Head(pats)) # Null
         THEN collectRangesRegex(text, tryParseExplicitRegex(Head(pats)), out)
         ELSE IF HasGlobChar(Head(pats))
         THEN collectRangesGlob(text, Head(pats), caseSensitive, out)
         ELSE collectRangesPlain(text, Head(pats), caseSensitive, out))

\* The second loop: the line terms as plain substrings.
RECURSIVE CollectTerms(_, _, _, _)
CollectTerms(text, terms, caseSensitive, out) ==
  IF terms = << >> THEN out
  ELSE CollectTerms(text, Tail(terms), caseSensitive,
                    collectRangesPlain(text, Head(terms), caseSensitive, out))

\* text.slice(a, b)
slice(text, a, b) == SubSeq(text, a + 1, IF b > Len(text) THEN Len(text) ELSE b)

MarkOpen == <<"<", "m", "a", "r", "k", ">">>

MarkClose == <<"<", "/", "m", "a", "r", "k", ">">>

\* The matched parts are put between the marks as they are.
RECURSIVE EmitFrom_RawMarks(_, _, _, _, _)
EmitFrom_RawMarks(text, merged, k, last, html) ==
  IF k > Len(merged)
  THEN (IF last < Len(text) THEN html \o escapeHTML(slice(text, last, Len(text))) ELSE html)
  ELSE EmitFrom_RawMarks(text, merged, k + 1, merged[k][2],
         (IF merged[k][1] > last THEN html \o escapeHTML(slice(text, last, merged[k][1])) ELSE html)
           \o MarkOpen \o slice(text, merged[k][1], merged[k][2]) \o MarkClose)

Emit_RawMarks(text, merged) ==
  IF merged = << >> THEN escapeHTML(text) ELSE EmitFrom_RawMarks(text, merged, 1, 0, << >>)

\* The last loop of buildHighlightedHTML from the k-th merged range on.
RECURSIVE EmitFrom(_, _, _, _, _)
EmitFrom(text, merged, k, last, html) ==
  IF k > Len(merged)
  THEN (IF last < Len(text) THEN html \o escapeHTML(slice(text, last, Len(text))) ELSE html)
  ELSE EmitFrom(text, merged, k + 1, merged[k][2],
         (IF merged[k][1] > last THEN html \o escapeHTML(slice(text, last, merged[k][1])) ELSE html)
           \o MarkOpen \o escapeHTML(slice(text, merged[k][1], merged[k][2])) \o MarkClose)

\* if (merged.length === 0) return this.escapeHTML(text); else the loop.
Emit(text, merged) ==
  IF merged = << >> THEN escapeHTML(text) ELSE EmitFrom(text, merged, 1, 0, << >>)

\* opts is [contentPatterns, lineTerms, exactPhrase, caseSensitive]; an absent
\* exactPhrase is the empty string (both falsy).
buildHighlightedHTML(text, opts) ==
  Emit(text,
       mergeRanges(
         collectRangesPlain(text, opts.exactPhrase, FALSE,
           CollectTerms(text, opts.lineTerms, opts.caseSensitive,
             CollectContent(text, opts.contentPatterns, opts.caseSensitive, << >>)))))

\* ------------------------------------------------- mergeRanges on its own

MaxRanges == 3
MaxPos == 4

\* The non-empty ranges over the positions.
RangePool == {r \in (0..MaxPos) \X (0..MaxPos) : r[1] < r[2]}

InitRanges ==
  /\ IdlePattern /\ IdleLine /\ IdleSearch /\ IdleMerge /\ IdleModal /\ IdleProperty /\ IdlePlugin
  /\ rvArgs \in [ranges : UNION {[1..n -> RangePool] : n \in 0..MaxRanges}]
  /\ rvResult = [pc |-> "called", value |-> << >>]

\* const merged = this.mergeRanges(ranges)
CallMergeRanges ==
  /\ rvResult.pc = "called"
  /\ rvResult' = [pc |-> "returned", value |-> mergeRanges(rvArgs.ranges)]
  /\ UNCHANGED <<rvArgs, mpVars, lrVars, rsVars, meVars, uiVars, pfVars, plVars>>

NextRanges == CallMergeRanges

SpecRanges == InitRanges /\ [][NextRanges]_vars

\* The positions the ranges cover.
Covered(ranges) ==
  {p \in 0..(MaxPos + 1) : \E k \in 1..Len(ranges) : ranges[k][1] <= p /\ p < ranges[k][2]}

\* C24: for a list of non-empty ranges, mergeRanges returns ranges sorted by
\* start, each start strictly greater than the end before it (neither
\* overlapping nor adjacent), that cover exactly the positions the input covers.
C24_MergeRanges ==
  rvResult.pc = "returned" =>
    /\ \A k \in 2..Len(rvResult.value) : rvResult.value[k][1] > rvResult.value[k - 1][2]
    /\ \A k \in 1..Len(rvResult.value) : rvResult.value[k][1] < rvResult.value[k][2]
    /\ Covered(rvResult.value) = Covered(rvArgs.ranges)

\* C24 witness: three ranges given out of order, two of them adjacent and one
\* apart, merged into two.
C24_Witness ==
  /\ rvResult.pc = "returned"
  /\ Len(rvArgs.ranges) = 3
  /\ rvArgs.ranges[1][1] > rvArgs.ranges[2][1]
  /\ \E j, k \in 1..3 : rvArgs.ranges[j][2] = rvArgs.ranges[k][1]
  /\ Len(rvResult.value) = 2

\* ------------------------------------------ buildHighlightedHTML on its own

MaxTextLen == 3

TextChars == {"a", "A", "<", "&"}

HighlightOptions ==
  [contentPatterns : {<< >>, << <<"a">> >>, << <<"/", "a", "/", "i">>, <<"<">> >>, << <<"a", "*">> >>},
   lineTerms : {<< >>, << <<"a", "A">>, <<"&">> >>},
   exactPhrase : {<< >>, <<"a", "<">>},
   caseSensitive : BOOLEAN]

InitHighlight ==
  /\ IdlePattern /\ IdleLine /\ IdleSearch /\ IdleMerge /\ IdleModal /\ IdleProperty /\ IdlePlugin
  /\ rvArgs \in [text : SeqsUpTo(TextChars, MaxTextLen), opts : HighlightOptions]
  /\ rvResult = [pc |-> "called", value |-> << >>]

\* this.buildHighlightedHTML(text, opts)
CallBuildHighlightedHTML ==
  /\ rvResult.pc = "called"
  /\ rvResult' = [pc |-> "returned", value |-> buildHighlightedHTML(rvArgs.text, rvArgs.opts)]
  /\ UNCHANGED <<rvArgs, mpVars, lrVars, rsVars, meVars, uiVars, pfVars, plVars>>

NextHighlight == CallBuildHighlightedHTML

SpecHighlight == InitHighlight /\ [][NextHighlight]_vars

\* The html with the mark tags taken out.  An escaped text holds no "<", so a
\* "<" of the html starts a tag that was inserted.
RECURSIVE StripMarks(_)
StripMarks(html) ==
  IF html = << >> THEN << >>
  ELSE IF Len(html) >= 6 /\ SubSeq(html, 1, 6) = MarkOpen THEN StripMarks(SubSeq(html, 7, Len(html)))
  ELSE IF Len(html) >= 7 /\ SubSeq(html, 1, 7) = MarkClose THEN StripMarks(SubSeq(html, 8, Len(html)))
  ELSE <<Head(html)>> \o StripMarks(Tail(html))

\* The text with each of & < > " ' replaced by its entity.
RECURSIVE Escaped(_)
Escaped(text) ==
  IF text = << >> THEN << >>
  ELSE (IF Head(text) = "&" THEN <<"&", "a", "m", "p", ";">>
        ELSE IF Head(text) = "<" THEN <<"&", "l", "t", ";">>
        ELSE IF Head(text) = ">" THEN <<"&", "g", "t", ";">>
        ELSE IF Head(text) = "\"" THEN <<"&", "q", "u", "o", "t", ";">>
        ELSE IF Head(text) = "'" THEN <<"&", "#", "3", "9", ";">>
        ELSE <<Head(text)>>) \o Escaped(Tail(text))

\* C23: the html buildHighlightedHTML returns, with the mark tags it inserted
\* taken out, is the escaped text: every character once and in order, the
\* markup characters escaped inside and outside the marks.
C23_HighlightKeepsEscapedText ==
  rvResult.pc = "returned" => StripMarks(rvResult.value) = Escaped(rvArgs.text)

\* C23 witness: a text with a markup character inside a mark and one outside,
\* the mark merged from overlapping ranges of two patterns.
C23_Witness ==
  /\ rvResult.pc = "returned"
  /\ rvArgs.text = <<"a", "<", "&">>
  /\ rvArgs.opts.exactPhrase = <<"a", "<">>
  /\ rvArgs.opts.contentPatterns = << <<"a">> >>
  /\ rvResult.value = MarkOpen \o <<"a", "&", "l", "t", ";">> \o MarkClose \o <<"&", "a", "m", "p", ";">>

\* ------------------------------------------------- matchProperty on its own

\* The metadata caches matchProperty is called with: no frontmatter, a
\* frontmatter without the key, scalar values, list values, an empty list.
CachePool ==
  {[hasFm |-> FALSE, fm |-> << >>]}
  \cup {[hasFm |-> TRUE, fm |-> << [key |-> <<"j">>, list |-> FALSE, items |-> << <<"a">> >>] >>]}
  \cup {[hasFm |-> TRUE, fm |-> << [key |-> <<"k">>, list |-> FALSE, items |-> <<v>>] >>] :
          v \in {<<"a">>, <<"A">>, <<"b", ",", "A">>}}
  \cup {[hasFm |-> TRUE, fm |-> << [key |-> <<"k">>, list |-> TRUE, items |-> vs] >>] :
          vs \in {<< >>, << <<"b">>, <<"A">> >>, << <<"a">> >>}}

\* The value input of the property row.
PropertyRaws ==
  {<< >>, <<"a">>, <<"A">>, <<"b", ",", "A">>, <<"/", "a", "/">>, <<"/", "A", "/", "i">>,
   <<"/", "b", ",", "A", "/", "g">>}

InitProperty ==
  /\ IdlePattern /\ IdleLine /\ IdleSearch /\ IdleMerge /\ IdleModal /\ IdleView /\ IdlePlugin
  /\ pfArgs \in [cache : CachePool, value : {PropertyFilter(<<"k">>, raw) : raw \in PropertyRaws},
                 caseSensitive : BOOLEAN]
  /\ pfResult = [pc |-> "called", value |-> FALSE]

\* matchProperty(cache, name, value, caseSensitive), the regex value being a
\* new object (lastIndex 0).
CallMatchProperty ==
  /\ pfResult.pc = "called"
  /\ pfResult' = [pc |-> "returned",
                  value |-> matchProperty(pfArgs.cache, pfArgs.value, pfArgs.caseSensitive, 0).ok]
  /\ UNCHANGED <<pfArgs, mpVars, lrVars, rsVars, meVars, uiVars, rvVars, plVars>>

NextProperty == CallMatchProperty

SpecProperty == InitProperty /\ [][NextProperty]_vars

\* The entries of the frontmatter under the name: none when the document has
\* no frontmatter or the property is absent.
PropertyOf(cache, name) ==
  IF cache.hasFm THEN SelectSeq(cache.fm, LAMBDA e : e.key = name) ELSE << >>

\* Equality under the case rule.
EqualUnderCase(x, y, caseSensitive) ==
  IF caseSensitive THEN x = y ELSE toLowerCase(x) = toLowerCase(y)

\* What C18 says matchProperty returns for a property that exists.
ExpectedProperty(entry, value, caseSensitive) ==
  CASE value.kind = "null"  -> TRUE
    [] value.kind = "regex" -> RegexTest(value.rx, StringOf(entry))
    [] OTHER -> \E k \in 1..Len(entry.items) : EqualUnderCase(entry.items[k], value.str, caseSensitive)

MaxExcerpts == 3

\* The lines of the long lists: more than the cap of 10.
ManyLines == 11

SourceTagA == <<"line">>
SourceTagB == <<"content", ":", "a">>

\* The excerpts of the short lists: two lines, an empty and two other texts,
\* sources with and without a repeated tag.
ExcerptPool ==
  [line : {0, 1}, text : {<< >>, <<"a">>, <<"b">>},
   sources : {<<SourceTagA>>, <<SourceTagA, SourceTagB>>, <<SourceTagB, SourceTagB>>}]

\* Lists of ManyLines excerpts on distinct lines, ascending and descending, and
\* one that names every line twice.
LongLists ==
  LET up   == [k \in 1..ManyLines |-> [line |-> k - 1, text |-> <<"a">>, sources |-> <<SourceTagA>>]]
      down == [k \in 1..ManyLines |-> [line |-> ManyLines - k, text |-> << >>, sources |-> <<SourceTagB>>]]
  IN {up, down, up \o down, down \o up}

InitMerge ==
  /\ IdlePattern /\ IdleLine /\ IdleSearch /\ IdleModal /\ IdleProperty /\ IdleView /\ IdlePlugin
  /\ meList \in SeqsUpTo(ExcerptPool, MaxExcerpts) \cup LongLists
  /\ meSelf = << >> /\ meAlone = << >> /\ meDone = {}

\* mergeExcerpts(L, L, 10)
MergeWithSelf ==
  /\ "self" \notin meDone
  /\ meSelf' = mergeExcerpts(meList, meList, PerFileLimit)
  /\ meDone' = meDone \cup {"self"}
  /\ UNCHANGED <<meList, meAlone, mpVars, lrVars, rsVars, uiVars, pfVars, rvVars, plVars>>

\* mergeExcerpts(L, [], 10)
MergeWithEmpty ==
  /\ "alone" \notin meDone
  /\ meAlone' = mergeExcerpts(meList, << >>, PerFileLimit)
  /\ meDone' = meDone \cup {"alone"}
  /\ UNCHANGED <<meList, meSelf, mpVars, lrVars, rsVars, uiVars, pfVars, rvVars, plVars>>

NextMerge == MergeWithSelf \/ MergeWithEmpty

SpecMerge == InitMerge /\ [][NextMerge]_vars

NoDuplicates(seq) == \A j, k \in 1..Len(seq) : j # k => seq[j] # seq[k]

\* C11: for every excerpt list L, mergeExcerpts(L, L) has the same line
\* indexes as mergeExcerpts(L, []), the same text on each line and the same set
\* of source tags on each line, no tag twice.
C11_MergeIdempotent ==
  meDone = {"self", "alone"} =>
    /\ Len(meSelf) = Len(meAlone)
    /\ \A k \in 1..Len(meSelf) :
         /\ k <= Len(meAlone)
         /\ meSelf[k].line = meAlone[k].line
         /\ meSelf[k].text = meAlone[k].text
         /\ Range(meSelf[k].sources) = Range(meAlone[k].sources)
         /\ NoDuplicates(meSelf[k].sources)
         /\ NoDuplicates(meAlone[k].sources)

\* C11 witness: both merges of a list that names a line twice, with different
\* texts and overlapping sources, have returned.
C11_Witness ==
  /\ meDone = {"self", "alone"}
  /\ \E j, k \in 1..Len(meList) :
       /\ j < k
       /\ meList[j].line = meList[k].line
       /\ meList[j].text = << >> /\ meList[k].text # << >>
       /\ Range(meList[j].sources) \cap Range(meList[k].sources) # {}
       /\ meList[j].sources # meList[k].sources
  /\ meSelf # << >>

\* C11 witness of the cap: both merges of a list of more than 10 lines.
MergeCapReached ==
  meDone = {"self", "alone"} /\ Len(meList) > PerFileLimit /\ Len(meSelf) = PerFileLimit

\* ----------------------------------------------------- properties of a run

\* The paths of the entries of a result.
AcceptedPaths(ms) == {ms[k].path : k \in 1..Len(ms)}

\* The file of the vault with the path.
DocOf(path) == CHOOSE d \in Range(files) : d.path = path

\* The dedicated filter lists C1 speaks of.
FilterLists ==
  {"filePatterns", "pathPatterns", "tagFilters", "propertyFilters", "headingPatterns",
   "contentPatterns"}

\* The entries of those lists, each as <<list, index>>.
EntryIds(q) == UNION {{<<f, k>> : k \in 1..Len(q[f])} : f \in FilterLists}

\* The query q with the one entry e as its only dedicated filter entry.
OnlyEntry(q, e) ==
  [f \in DOMAIN q |-> IF f \in FilterLists THEN (IF f = e[1] THEN <<q[f][e[2]]>> ELSE << >>)
                      ELSE q[f]]

\* The run holds exactly two dedicated filter entries and has no limit.
TwoEntries ==
  /\ pc = "done"
  /\ files # << >>
  /\ searchOptions.limit = 0
  /\ Cardinality(EntryIds(parsedQuery)) = 2

\* A property filter whose value is a regex with the g or y flag.
StatefulRegex(pf) == pf.kind = "regex" /\ (pf.rx.global \/ pf.rx.sticky)

\* What C1 states of a run of two entries.
IntersectionHolds ==
  \A e1, e2 \in EntryIds(parsedQuery) :
    e1 # e2 =>
      AcceptedPaths(matches)
        = AcceptedPaths(runSearch(files, OnlyEntry(parsedQuery, e1), searchOptions).matches)
          \cap AcceptedPaths(runSearch(files, OnlyEntry(parsedQuery, e2), searchOptions).matches)

\* C1: with no result limit, the files accepted for a query of two dedicated
\* filter entries p and q are exactly the files accepted both for the query of p
\* alone and for the query of q alone.
C1_IntersectionOfSingleFilters == TwoEntries => IntersectionHolds

\* The same statement for the queries whose property filters hold no regex with
\* the g or y flag.
IntersectionOfStatelessFilters ==
  (TwoEntries /\ \A k \in 1..Len(parsedQuery.propertyFilters) :
                    ~StatefulRegex(parsedQuery.propertyFilters[k]))
    => IntersectionHolds

\* The facet of the file yields a hit for the prepared free-text query.
FacetHit(d, f, g) ==
  CASE f = "body" -> GlobalBody(d.body, g).hit
    [] f = "name" -> testGlobalString(d.name, g).hit
    [] f = "path" -> testGlobalString(d.path, g).hit
    [] f = "frontmatter" ->
         d.hasFm /\ \E k \in 1..Len(FrontmatterStrings(d.fm)) :
                      testGlobalString(FrontmatterStrings(d.fm)[k], g).hit
    [] f = "tags" -> \E k \in 1..Len(getTagsForFile(d)) : testGlobalString(getTagsForFile(d)[k], g).hit
    [] f = "headings" ->
         \E k \in 1..Len(d.headings) :
           d.headings[k].heading # << >> /\ testGlobalString(d.headings[k].heading, g).hit

\* C2: a file that passed every dedicated filter is accepted when the free-text
\* query is empty, and else exactly when an enabled facet yields a hit; with a
\* non-empty query and no facet enabled nothing is accepted.
C2_FreeTextIsOrAcrossFacets ==
  (pc = "done" /\ files # << >> /\ searchOptions.limit = 0) =>
    /\ \A k \in 1..Len(files) :
         files[k].path \in AcceptedPaths(matches)
           <=> /\ files[k].path \in passedFilters
               /\ \/ parsedQuery.globalQuery = << >>
                  \/ \E f \in Facets : /\ searchOptions.globalQueryTargets[f]
                                       /\ FacetHit(files[k], f, prepared)
    /\ (parsedQuery.globalQuery # << >> /\ \A f \in Facets : ~searchOptions.globalQueryTargets[f])
         => matches = << >>

\* C2 witness: a run with a free-text query and an enabled facet that accepted a
\* file and rejected another one that had passed every dedicated filter.
C2_Witness ==
  /\ pc = "done"
  /\ searchOptions.limit = 0
  /\ parsedQuery.globalQuery # << >>
  /\ \E f \in Facets : searchOptions.globalQueryTargets[f]
  /\ matches # << >>
  /\ passedFilters \ AcceptedPaths(matches) # {}

\* The 0-based indexes of the lines of the body that the AND regex matches.
MatchingLines(body, literal, caseSensitive) ==
  {k - 1 : k \in {j \in 1..Len(SplitLines(body, << >>)) :
                    RegexTest(LineRegex(literal, caseSensitive), SplitLines(body, << >>)[j])}}

StrictlyAscending(seq) == \A k \in 1..(Len(seq) - 1) : seq[k] < seq[k + 1]

\* C6: with a line filter, only files with a matching line are accepted, and an
\* accepted file's hitLineIndices lists exactly the 0-based indexes of its
\* matching lines in strictly ascending order, hitCount being its length.
C6_LineFilterHits ==
  (pc = "done" /\ files # << >> /\ parsedQuery.linePatterns # << >>) =>
    \A k \in 1..Len(matches) :
      LET hit == MatchingLines(DocOf(matches[k].path).body, parsedQuery.linePatterns[1],
                               searchOptions.caseSensitive)
      IN /\ hit # {}
         /\ matches[k].line.present
         /\ StrictlyAscending(matches[k].line.hitLineIndices)
         /\ Range(matches[k].line.hitLineIndices) = hit
         /\ matches[k].line.hitCount = Len(matches[k].line.hitLineIndices)

\* C6 witness: a run with a line filter that accepted a file with two or more
\* matching lines and rejected a file that has no matching line.
C6_Witness ==
  /\ pc = "done"
  /\ parsedQuery.linePatterns # << >>
  /\ \E k \in 1..Len(matches) : matches[k].line.hitCount >= 2
  /\ \E k \in 1..Len(files) :
       /\ files[k].path \notin AcceptedPaths(matches)
       /\ MatchingLines(files[k].body, parsedQuery.linePatterns[1], searchOptions.caseSensitive) = {}

\* The file passes the file, path, tag and heading gates, and the property
\* filters whose outcome does not depend on a regex's lastIndex.
MetadataGatesHold(d, q, caseSensitive) ==
  /\ \A k \in 1..Len(q.filePatterns) : matchPattern(d.name, q.filePatterns[k], caseSensitive) = TRUE
  /\ \A k \in 1..Len(q.pathPatterns) : matchPattern(d.path, q.pathPatterns[k], caseSensitive) = TRUE
  /\ \A k \in 1..Len(q.tagFilters) : TagOk(getTagsForFile(d), q.tagFilters[k])
  /\ \A k \in 1..Len(q.propertyFilters) :
       ~StatefulRegex(q.propertyFilters[k])
         => matchProperty(d, q.propertyFilters[k], caseSensitive, 0).ok
  /\ \A k \in 1..Len(q.headingPatterns) : matchHeading(d, q.headingPatterns[k], caseSensitive)

\* C7: cachedRead is only ever called for a file that passed the five metadata
\* gates; no file that fails the file, path, tag, property or heading filter is
\* read.
C7_NoReadForGateFailures ==
  \A k \in 1..Len(reads) :
    /\ reads[k] \in passedGates
    /\ MetadataGatesHold(DocOf(reads[k]), parsedQuery, searchOptions.caseSensitive)

\* C7 witness: a finished run with metadata filters that read one file and did
\* not read another, which fails a gate.
C7_Witness ==
  /\ pc = "done"
  /\ reads # << >>
  /\ \E k \in 1..Len(files) :
       /\ files[k].path \notin Range(reads)
       /\ ~MetadataGatesHold(files[k], parsedQuery, searchOptions.caseSensitive)

\* A gate after the metadata gates needs the body.
NeedsBody(q, opt) ==
  \/ q.contentPatterns # << >>
  \/ q.linePatterns # << >>
  \/ (q.globalQuery # << >> /\ opt.globalQueryTargets["body"])

NoDedicatedFilter(q) == EntryIds(q) = {} /\ q.linePatterns = << >>

\* Per accepted file, the path and the hit count of each facet.
FacetCounts(ms) ==
  [k \in 1..Len(ms) |-> <<ms[k].path, ms[k].filterHits.globalQueryBreakdown>>]

\* The strings of a facet of a file.
FacetStrings(d, f) ==
  CASE f = "body" -> {d.body}
    [] f = "name" -> {d.name}
    [] f = "path" -> {d.path}
    [] f = "frontmatter" -> IF d.hasFm THEN Range(FrontmatterStrings(d.fm)) ELSE {}
    [] f = "tags" -> Range(getTagsForFile(d))
    [] f = "headings" -> {d.headings[k].heading : k \in 1..Len(d.headings)}

\* An enabled facet of the file holds the phrase, under the case rule.
PhraseFound(d, phrase, targets, caseSensitive) ==
  \E f \in Facets :
    /\ targets[f]
    /\ \E str \in FacetStrings(d, f) : str # << >> /\ Contains(str, phrase, caseSensitive)

\* C9: with no dedicated filter, the run with the other value of caseSensitive
\* accepts the same files with the same hit count per facet; in exact mode a
\* file is accepted exactly when an enabled facet holds the phrase, letter case
\* ignored.
C9_CaseOptionIgnoredByFreeText ==
  (pc = "done" /\ files # << >> /\ NoDedicatedFilter(parsedQuery)) =>
    /\ FacetCounts(matches)
         = FacetCounts(runSearch(files, parsedQuery,
                                 [searchOptions EXCEPT !.caseSensitive = ~@]).matches)
    /\ (searchOptions.mode = "exact" /\ parsedQuery.globalQuery # << >> /\ searchOptions.limit = 0)
         => \A k \in 1..Len(files) :
              files[k].path \in AcceptedPaths(matches)
                <=> PhraseFound(files[k], parsedQuery.globalQuery,
                                searchOptions.globalQueryTargets, FALSE)

\* C9 witness: an exact-mode run with caseSensitive on that accepted a file
\* which holds the phrase only in another letter case.
C9_Witness ==
  /\ pc = "done"
  /\ NoDedicatedFilter(parsedQuery)
  /\ searchOptions.mode = "exact"
  /\ searchOptions.caseSensitive
  /\ \E k \in 1..Len(matches) :
       ~PhraseFound(DocOf(matches[k].path), parsedQuery.globalQuery,
                    searchOptions.globalQueryTargets, TRUE)

\* The heading of the file at 0-based line idx that hits the test.
HeadingAt(d, idx, Test(_)) ==
  \E k \in 1..Len(d.headings) :
    d.headings[k].line = idx /\ d.headings[k].heading # << >> /\ Test(d.headings[k].heading)

\* The source tags of all the evidence the run has for 0-based line idx of the
\* file: the line filter, the content patterns, the free-text query on the body
\* line, the heading patterns and the free-text query on the headings of that
\* line; for idx = -1 the hits of the free-text query on name, path,
\* frontmatter and tags.
Evidence(d, idx, q, opt, g) ==
  LET lines == SplitLines(d.body, << >>)
      cs    == opt.caseSensitive
      on(f) == opt.globalQueryTargets[f]
      hit(str) == testGlobalString(str, g).hit
      inBody == idx >= 0 /\ idx < Len(lines)
  IN {src \in {<<"line">>} :
        inBody /\ q.linePatterns # << >>
        /\ RegexTest(LineRegex(q.linePatterns[1], cs), lines[idx + 1])}
     \cup {<<"content", ":">> \o q.contentPatterns[k] : k \in
             {j \in 1..Len(q.contentPatterns) :
                inBody /\ contentContains(lines[idx + 1], q.contentPatterns[j], cs)}}
     \cup {src \in {<<"globalQuery", ":", opt.mode>>} :
             inBody /\ q.globalQuery # << >> /\ on("body") /\ GlobalLineHit(lines[idx + 1], g)}
     \cup {<<"headings", ":">> \o q.headingPatterns[k] : k \in
             {j \in 1..Len(q.headingPatterns) :
                HeadingAt(d, idx, LAMBDA h : HeadingOk(h, q.headingPatterns[j], cs))}}
     \cup {src \in {<<"globalQuery", ":", opt.mode, ":", "headings">>} :
             on("headings") /\ HeadingAt(d, idx, hit)}
     \cup {src \in {<<"globalQuery", ":", opt.mode, ":", "name">>} :
             idx = -1 /\ on("name") /\ hit(d.name)}
     \cup {src \in {<<"globalQuery", ":", opt.mode, ":", "path">>} :
             idx = -1 /\ on("path") /\ hit(d.path)}
     \cup {src \in {<<"globalQuery", ":", opt.mode, ":", "frontmatter-key">>} :
             idx = -1 /\ on("frontmatter") /\ d.hasFm
             /\ \E k \in 1..Len(d.fm) : hit(d.fm[k].key)}
     \cup {src \in {<<"globalQuery", ":", opt.mode, ":", "frontmatter">>} :
             idx = -1 /\ on("frontmatter") /\ d.hasFm
             /\ \E k \in 1..Len(d.fm) : \E j \in 1..Len(d.fm[k].items) : hit(d.fm[k].items[j])}
     \cup {src \in {<<"globalQuery", ":", opt.mode, ":", "tag">>} :
             idx = -1 /\ on("tags") /\ \E k \in 1..Len(getTagsForFile(d)) : hit(getTagsForFile(d)[k])}

\* The lines the run has evidence for.
EvidenceLines(d, q, opt, g) ==
  {idx \in -1..Len(SplitLines(d.body, << >>)) : Evidence(d, idx, q, opt, g) # {}}

\* C10: the excerpts of an accepted file are at most 10, their line indexes
\* strictly ascending, and each excerpt's sources is the duplicate-free union of
\* the source tags of all the evidence found on its line.
C10_ExcerptsMergedByLine ==
  (pc = "done" /\ files # << >>) =>
    \A k \in 1..Len(matches) :
      LET ex == matches[k].excerpts IN
      /\ Len(ex) <= 10
      /\ StrictlyAscending([j \in 1..Len(ex) |-> ex[j].line])
      /\ \A j \in 1..Len(ex) :
           /\ NoDuplicates(ex[j].sources)
           /\ Range(ex[j].sources)
                = Evidence(DocOf(matches[k].path), ex[j].line, parsedQuery, searchOptions, prepared)

\* C10 witness: an accepted file with evidence on more than 10 lines, whose 10
\* excerpts hold one that merges the tags of three or more sources.
C10_Witness ==
  /\ pc = "done"
  /\ \E k \in 1..Len(matches) :
       /\ Len(matches[k].excerpts) = 10
       /\ Cardinality(EvidenceLines(DocOf(matches[k].path), parsedQuery, searchOptions, prepared)) > 10
       /\ \E j \in 1..10 : Len(matches[k].excerpts[j].sources) >= 3

\* The position of the file of that path in the sorted files.
SortedPosition(path) == CHOOSE k \in 1..Len(sortedFiles) : sortedFiles[k].path = path

\* The results of the same search with no limit.
Unlimited == runSearch(files, parsedQuery, [searchOptions EXCEPT !.limit = 0])

\* C12: with limit n > 0 the run returns at most n results, which are the first
\* n (or all, if fewer) results of the same search with no limit, in the same
\* order; when the n-th file is accepted the loop stops, and no file after it
\* in sort order is put to the gates or read.
C12_LimitIsPrefix ==
  (pc = "done" /\ files # << >> /\ searchOptions.limit > 0) =>
    /\ Len(matches) <= searchOptions.limit
    /\ matches = Take(Unlimited.matches, searchOptions.limit)
    /\ Len(matches) = searchOptions.limit =>
         \A path \in Range(reads) \cup passedGates :
           SortedPosition(path) <= SortedPosition(matches[Len(matches)].path)
    /\ Len(matches) = searchOptions.limit =>
         fileIdx = SortedPosition(matches[Len(matches)].path) + 1

\* C12 witness: a finished run with a limit that cut the results short: the
\* search with no limit returns more, and a file was left unread.
C12_Witness ==
  /\ pc = "done"
  /\ searchOptions.limit > 0
  /\ Len(matches) = searchOptions.limit
  /\ Len(Unlimited.matches) > searchOptions.limit
  /\ Len(reads) < Len(files)

\* File a may stand before file b in a list ordered by the sort key.
InSortOrder(a, b, sort) ==
  CASE sort = "mtime-desc" -> a.mtime >= b.mtime
    [] sort = "mtime-asc"  -> a.mtime <= b.mtime
    [] sort = "path-asc"   -> localeCompare(a.path, b.path) <= 0
    [] OTHER -> TRUE

\* C13: the list a run returns is ordered by the selected sort key, with or
\* without a limit: modification time non-increasing for mtime-desc,
\* non-decreasing for mtime-asc, path ascending for path-asc.
C13_ResultsInSortOrder ==
  pc = "done" =>
    \A j, k \in 1..Len(matches) :
      j < k => InSortOrder(DocOf(matches[j].path), DocOf(matches[k].path), searchOptions.sort)

\* C13 witness: a finished run that returned two files in the order of the sort
\* key, which is not the order the vault listed them in.
C13_Witness ==
  /\ pc = "done"
  /\ searchOptions.sort \in {"mtime-desc", "mtime-asc", "path-asc"}
  /\ Len(matches) = 2
  /\ Len(files) = 2
  /\ matches[1].path = files[2].path

\* The sum of line.hitCount over the entries from the k-th on; an entry with no
\* line detail counts 0.
RECURSIVE SumLineHits(_, _)
SumLineHits(ms, k) ==
  IF k > Len(ms) THEN 0
  ELSE (IF ms[k].line.present THEN ms[k].line.hitCount ELSE 0) + SumLineHits(ms, k + 1)

\* C14: summary.totalLineHits is the sum of line.hitCount over the returned
\* matches; a file whose lines match the line filter and which the free-text
\* query then rejects adds nothing to it.
C14_TotalLineHitsOfAccepted ==
  pc = "done" => totalLineHits = SumLineHits(matches, 1)

\* runSearch rejected because cachedRead did: the regex of the free-text query
\* is built before the loop, so a run that has read and then thrown has thrown
\* on its last read.
ThrewOnRead == pc = "threw" /\ reads # << >>

\* C15: a body read that fails does not make runSearch fail; the file counts as
\* a non-match and the run goes on to the remaining files.
C15_ReadFailureIsNotFatal == ~ThrewOnRead

\* runSearch rejected before its loop: new RegExp threw on the free-text query.
ThrewOnQuery ==
  /\ pc = "threw"
  /\ reads = << >>
  /\ searchOptions.mode = "regex"
  /\ PrepareQuery(parsedQuery.globalQuery, searchOptions.mode).regex.kind = "SyntaxError"

\* C16: a free-text query in regex mode that does not compile as a regular
\* expression is not fatal: runSearch does not throw and returns a result.
C16_BadRegexIsNotFatal == ~ThrewOnQuery

\* The query carries no flags: a bare pattern, or a /body/ literal whose flag
\* part is empty.
Flagless(query) == ~ExplicitSplit(query).m \/ ExplicitSplit(query).flags = << >>

\* The pattern of a flagless query.
PatternOf(query) == IF ExplicitSplit(query).m THEN ExplicitSplit(query).body ELSE query

\* An enabled facet of the file matches the pattern, letter case ignored.
PatternFoundIgnoringCase(d, pattern, targets) ==
  \E f \in Facets :
    /\ targets[f]
    /\ \E str \in FacetStrings(d, f) : str # << >> /\ RegexTest(NewRegExp(pattern, <<"i">>), str)

\* C19: in regex mode a free-text query with no flags, a bare pattern or a
\* /body/ literal with an empty flag part, is matched ignoring letter case: with
\* no dedicated filter, a file is accepted exactly when an enabled facet
\* matches the pattern case-insensitively.
C19_FlaglessRegexIgnoresCase ==
  (/\ pc = "done" /\ files # << >>
   /\ searchOptions.mode = "regex" /\ searchOptions.limit = 0
   /\ NoDedicatedFilter(parsedQuery)
   /\ parsedQuery.globalQuery # << >>
   /\ Flagless(parsedQuery.globalQuery)
   /\ NewRegExp(PatternOf(parsedQuery.globalQuery), <<"i">>).kind = "regex") =>
    \A k \in 1..Len(files) :
      files[k].path \in AcceptedPaths(matches)
        <=> PatternFoundIgnoringCase(files[k], PatternOf(parsedQuery.globalQuery),
                                     searchOptions.globalQueryTargets)

\* The run's only filter is one plain (non-regex) tag filter.
PlainTagFilterAlone ==
  /\ pc = "done" /\ files # << >>
  /\ searchOptions.limit = 0
  /\ parsedQuery.globalQuery = << >> /\ parsedQuery.linePatterns = << >>
  /\ EntryIds(parsedQuery) = {<<"tagFilters", 1>>}
  /\ tryParseExplicitRegex(parsedQuery.tagFilters[1]) = Null

\* A tag of the file equals the filter under the case rule.
HasTagUnderCase(d, tg, caseSensitive) ==
  \E t \in Range(getTagsForFile(d)) : EqualUnderCase(t, tg, caseSensitive)

\* C20: caseSensitive governs the tag filter as it does every dedicated filter:
\* a plain tag filter accepts a file exactly when a tag of the file equals it,
\* letter case ignored when caseSensitive is off and respected when it is on.
C20_TagFilterFollowsCaseOption ==
  PlainTagFilterAlone =>
    \A k \in 1..Len(files) :
      files[k].path \in AcceptedPaths(matches)
        <=> HasTagUnderCase(files[k], parsedQuery.tagFilters[1], searchOptions.caseSensitive)

\* The query with a '#' put before its tag filter.
WithHash(q) == [q EXCEPT !.tagFilters = << <<"#">> \o q.tagFilters[1] >>]

\* C21: a plain tag filter may carry a leading '#': on the same vault, with the
\* same options, runSearch accepts the same files for the tag filter '#t' as
\* for the tag filter 't'.
C21_HashBeforeTagFilterIsIgnored ==
  PlainTagFilterAlone =>
    AcceptedPaths(runSearch(files, WithHash(parsedQuery), searchOptions).matches)
      = AcceptedPaths(matches)

\* The vault in the opposite enumeration order.
Reversed(fs) == [k \in 1..Len(fs) |-> fs[Len(fs) + 1 - k]]

\* The entry of the results for the path, as a set: empty when rejected.
ResultFor(ms, path) == {ms[k] : k \in {j \in 1..Len(ms) : ms[j].path = path}}

\* C22: files are evaluated independently: with no limit, each file is accepted
\* in the run, and with the same entry (hit statistics and excerpts), exactly as
\* in a run on a vault that holds this file alone; and the vault enumerated in
\* the opposite order yields the same accepted set.
C22_FilesEvaluatedIndependently ==
  (pc = "done" /\ files # << >> /\ searchOptions.limit = 0) =>
    /\ \A k \in 1..Len(files) :
         ResultFor(matches, files[k].path)
           = ResultFor(runSearch(<<files[k]>>, parsedQuery, searchOptions).matches, files[k].path)
    /\ AcceptedPaths(runSearch(Reversed(files), parsedQuery, searchOptions).matches)
         = AcceptedPaths(matches)

\* The synthetic excerpts (line index -1) of the free-text hits of the file on
\* its name, path, frontmatter keys and values, and tags.
FacetExcerpts(d) ==
  SelectSeq(buildGlobalSyntheticExcerpts(d, d.body, searchOptions.globalQueryTargets, prepared),
            LAMBDA e : e.line = -1)

\* C25: for an accepted file, each hit of the free-text query on a facet other
\* than the body (name, path, a frontmatter key or value, a tag) is in the
\* returned excerpts as an excerpt of its own, of line index -1, with the label
\* text of that hit.
C25_EachFacetHitHasItsExcerpt ==
  (pc = "done" /\ parsedQuery.globalQuery # << >>) =>
    \A k \in 1..Len(matches) :
      \A j \in 1..Len(FacetExcerpts(DocOf(matches[k].path))) :
        \E i \in 1..Len(matches[k].excerpts) :
          /\ matches[k].excerpts[i].line = -1
          /\ matches[k].excerpts[i].text = FacetExcerpts(DocOf(matches[k].path))[j].text

\* The filterHits field of each dedicated filter list.
HitField ==
  [filePatterns |-> "file", pathPatterns |-> "path", tagFilters |-> "tag",
   propertyFilters |-> "property", headingPatterns |-> "headings", contentPatterns |-> "content"]

\* C27: for an accepted file and each dedicated filter list that is not empty,
\* the count filterHits reports for the list is the number of its entries:
\* acceptance needed every entry to match.
C27_FilterHitsCountEveryEntry ==
  pc = "done" =>
    \A k \in 1..Len(matches) :
      \A f \in FilterLists :
        parsedQuery[f] # << >> => matches[k].filterHits[HitField[f]] = Len(parsedQuery[f])

\* C28: with a free-text query, an accepted file reports at least one free-text
\* hit: filterHits.globalQuery, the sum of the six counts of
\* globalQueryBreakdown, is at least 1, in every mode.
C28_AcceptedHasFreeTextHits ==
  (pc = "done" /\ parsedQuery.globalQuery # << >>) =>
    \A k \in 1..Len(matches) : matches[k].filterHits.globalQuery >= 1

\* The three excerpt lists of the file with no cap, merged once, and the
\* PerFileLimit entries of the smallest line indexes kept.
MergedOnce(d) ==
  LET base  == extractHitLines(d.body, parsedQuery, searchOptions, prepared, Len(d.body) + 1)
      heads == buildHeadingExcerpts(d, d.body, parsedQuery.headingPatterns, searchOptions.caseSensitive)
      synth == buildGlobalSyntheticExcerpts(d, d.body, searchOptions.globalQueryTargets, prepared)
      all   == Len(base) + Len(heads) + Len(synth)
  IN Take(mergeExcerpts(mergeExcerpts(base, heads, all), synth, all), PerFileLimit)

\* The excerpts with their sources as sets.
WithSourceSets(ex) ==
  [k \in 1..Len(ex) |-> [line |-> ex[k].line, text |-> ex[k].text, sources |-> Range(ex[k].sources)]]

\* C29: the staged capping loses nothing: the excerpts returned for a file
\* have the line indexes, texts and source sets of the three uncapped lists
\* merged once and cut to the 10 smallest line indexes.
C29_StagedCapLosesNothing ==
  pc = "done" =>
    \A k \in 1..Len(matches) :
      WithSourceSets(matches[k].excerpts) = WithSourceSets(MergedOnce(DocOf(matches[k].path)))

\* C29 witness: an accepted file whose line scan alone gives more than 10
\* excerpts, with heading excerpts and facet excerpts merged in after the cap.
C29_Witness ==
  /\ pc = "done"
  /\ \E k \in 1..Len(matches) :
       LET d == DocOf(matches[k].path) IN
       /\ Len(extractHitLines(d.body, parsedQuery, searchOptions, prepared, Len(d.body) + 1))
            > PerFileLimit
       /\ buildHeadingExcerpts(d, d.body, parsedQuery.headingPatterns, searchOptions.caseSensitive)
            # << >>
       /\ buildGlobalSyntheticExcerpts(d, d.body, searchOptions.globalQueryTargets, prepared) # << >>
       /\ Len(matches[k].excerpts) = PerFileLimit
       /\ matches[k].excerpts[1].line = -1

\* C30: in every result of runSearch, summary.matchedFiles is the number of
\* entries of the returned matches, and so never exceeds a positive limit: it
\* counts the files accepted before the loop stopped.
C30_MatchedFilesIsLengthOfMatches ==
  pc = "done" =>
    /\ matchedFiles = Len(matches)
    /\ searchOptions.limit > 0 => matchedFiles <= searchOptions.limit

\* C30 witness: a run stopped by its limit, whose matchedFiles is below the
\* number of files the same search accepts with no limit.
C30_Witness ==
  /\ pc = "done"
  /\ searchOptions.limit > 0
  /\ matchedFiles = searchOptions.limit
  /\ matchedFiles = Len(matches)
  /\ Unlimited.matchedFiles > matchedFiles

====
